---- MODULE Spec2Model ----
(***************************************************************************)
(* Room coordinator of box2 (api/src/durable-object.ts, class RecipeRoom): *)
(* connection admission, rate limiting, the message admission pipeline,    *)
(* the name-claim ledger, broadcast and persistence; the Worker in front   *)
(* of it (api/src/index.ts): the rooms table, creation and passphrase      *)
(* rotation; and the client (app/src): payload encryption, history         *)
(* decryption and the trust-on-first-use table of signing keys.            *)
(*                                                                         *)
(* JavaScript runs one listener at a time, so a handler is atomic from its *)
(* start to its first await and from one await to the next.  handleMessage *)
(* has one await, the D1 insert: HandleMessage is the part before it, and  *)
(* PersistOk / PersistFail are the insert's completion.                    *)
(*                                                                         *)
(* Strings that the code only tests for truthiness are modelled with ""    *)
(* standing for every falsy value (undefined, null, "").                   *)
(***************************************************************************)
EXTENDS Integers, Sequences, FiniteSets, TLC

VARIABLES
    env,              \* this.env.RATE_LIMIT (0 = field not configured)
    connections,      \* this.connections: Set<WebSocket>
    connectionsByIp,  \* this.connectionsByIp: Map<string, number>
    rateLimits,       \* this.rateLimits: Map<string, RateLimitEntry>
    initialized,      \* this.initialized
    roomId,           \* this.roomId ("" = null)
    name_claims,      \* rows of the name_claims table (ctx.storage.sql)
    messages,         \* rows of the D1 messages table
    sockets,          \* every WebSocket created so far: [ip, phase]
    outbox,           \* frames sent on each WebSocket, in order
    pending,          \* handlers suspended at the D1 insert
    now,              \* Date.now()
    nEvents,          \* message events dispatched so far (names the handlers)
    rooms,            \* rows of the D1 rooms table, by room_id
    requests,         \* Worker handlers suspended at an await
    nSalts,           \* salts drawn by generateSalt so far
    trustedKeys,      \* the IndexedDB store 'trustedKeys', by key
    calls,            \* verifyAndCheckTrust calls suspended at an await
    verdicts,         \* the TrustStatus each finished call returned
    clients,          \* the Room pages open: passphrase, room, cryptoKey, messages
    authored,         \* the message frames the clients have sent
    crypto,           \* one encryptPayload / decryptPayload exchange
    response,         \* status of the Response fetch returned last (0 = none yet)
    sessions,         \* sessions revision: this.sessions (Map<WebSocket, {ip}>)
    ipConnectionCounts, \* sessions revision: this.ipConnectionCounts
    messageRateLimits,  \* sessions revision: this.messageRateLimits
    page              \* one Room page: its state, refs and calls in flight

\* The coordinator (RecipeRoom)
coordinatorVars ==
    <<env, connections, connectionsByIp, rateLimits, initialized, roomId,
      name_claims, messages, sockets, outbox, pending, now, nEvents, response>>

\* The Worker in front of it
workerVars == <<rooms, requests, nSalts>>

\* The client application
appVars == <<trustedKeys, calls, verdicts, clients, authored, crypto>>

\* The coordinator's collections in its sessions revision
sessionsVars == <<sessions, ipConnectionCounts, messageRateLimits>>

\* The Room page's identity: display name, signing key, socket
pageVars == <<page>>

vars == <<coordinatorVars, workerVars, appVars, sessionsVars, pageVars>>

-----------------------------------------------------------------------------
(* Bounds of the model *)

MaxSockets == 2
MaxMsgs == 3
MaxPending == 2
MaxTicks == 1
TickMs == 60000
MaxConnSockets == 5
MaxCastSockets == 3
MaxCastMsgs == 2
MaxPipeMsgs == 2
MaxWireMsgs == 3
MaxLimitMsgs == 5
MaxCalls == 3
MaxInFlight == 2
MaxSeqCalls == 4
MaxSalts == 4
MaxClients == 2
MaxAuthored == 2
MaxRateMsgs == 32
MaxRateTicks == 2
RateTickMs == 30000
CfgMaxConnections == 3
CfgMaxMessages == 2
CfgMaxSize == 4

Ips == {"ip1", "ip2"}
RoomIdOfUrl == "kitchen"

-----------------------------------------------------------------------------
(* Program constants *)

DefaultMaxConnectionsPerIp == 10
DefaultMaxMessagesPerMinute == 30
DefaultMaxMessageSize == 16384
WindowMs == 60000
DefaultKdfIters == 100000
MAX_CONNECTIONS_PER_IP == 10
MAX_MESSAGES_PER_MINUTE == 30
MAX_MESSAGE_SIZE == 16384
RATE_LIMIT_WINDOW_MS == 60000
MAX_CACHED == 100
OPEN == 1
Null == "null"
NotANumber == -1

-----------------------------------------------------------------------------
(* Map<K, V> as a function whose domain is the set of keys present *)

EmptyMap == [k \in {} |-> 0]
MapHas(m, k) == k \in DOMAIN m
MapSet(m, k, v) == [x \in (DOMAIN m) \cup {k} |-> IF x = k THEN v ELSE m[x]]
MapDelete(m, k) == [x \in (DOMAIN m) \ {k} |-> m[x]]

\* `value || dflt` on a number
OrDefault(value, dflt) == IF value = 0 THEN dflt ELSE value

\* new Date().toISOString(): the date part and the time-of-day part
ToISOString(t) == <<t \div 86400000, t % 86400000>>

\* ws.readyState.  A socket whose phase is "broken" still reads OPEN, and
\* send on it throws.
ReadyState(ws) == IF sockets[ws].phase \in {"open", "broken"} THEN OPEN ELSE 3

\* ws.send(frame)
Send(ob, ws, frame) == [ob EXCEPT ![ws] = Append(@, frame)]

RECURSIVE SendAll(_, _, _)
SendAll(ob, targets, frame) ==
    IF targets = {} THEN ob
    ELSE LET c == CHOOSE x \in targets : TRUE
         IN SendAll(Send(ob, c, frame), targets \ {c}, frame)

-----------------------------------------------------------------------------
(* Incoming frames *)

Frame(msgId, senderName, keyFingerprint) ==
    [kind |-> "object", type |-> "message", msgId |-> msgId, version |-> 1,
     ivB64 |-> "iv", ciphertextB64 |-> "ct", senderName |-> senderName,
     keyFingerprint |-> keyFingerprint]

BaseFrame == Frame("m1", "ann", "f2")

BrokenFrames ==
    { [BaseFrame EXCEPT !.kind = "unparseable"],
      [BaseFrame EXCEPT !.kind = "null"],
      [BaseFrame EXCEPT !.type = "ping"],
      [BaseFrame EXCEPT !.msgId = ""],
      [BaseFrame EXCEPT !.ivB64 = ""],
      [BaseFrame EXCEPT !.ciphertextB64 = ""],
      [BaseFrame EXCEPT !.version = NotANumber],
      [BaseFrame EXCEPT !.ciphertextB64 = "ctctctct"] }

LedgerFrames ==
    { Frame("m1", "ann", "f1"), Frame("m1", "ann", "f2"), Frame("m1", "ann", ""),
      [BaseFrame EXCEPT !.ivB64 = ""] }

PipeFrames ==
    {Frame("m1", "ann", "f1"), Frame("m1", "ann", "f2")} \cup BrokenFrames

\* Frames whose msgId, iv or ciphertext is not what a client produces
LooseFrames ==
    { [BaseFrame EXCEPT !.msgId = "m 1!"],
      [BaseFrame EXCEPT !.ivB64 = "*iv*"],
      [BaseFrame EXCEPT !.ciphertextB64 = "c t"] }

WireFrames == PipeFrames \cup LooseFrames

RateFrames == {Frame("m1", "", "")}

CastFrames == {Frame(m, "", "") : m \in {"m1", "m2"}} \cup {Frame("m1", "ann", "")}

-----------------------------------------------------------------------------
(* Frames the coordinator sends *)

ErrorFrame_WithCode(message) ==
    [type |-> "error", code |-> "error", message |-> message]

ErrorFrame(message) == [type |-> "error", message |-> message]

NameTakenFrame(senderName) ==
    [type |-> "error", code |-> "name_taken", message |-> <<"claimed", senderName>>]

\* A broadcast frame that leaves the sender's name out
BroadcastMsg_Anonymous(msg, createdAt) ==
    [type |-> "message", msgId |-> msg.msgId, version |-> msg.version,
     createdAt |-> createdAt, ivB64 |-> msg.ivB64,
     ciphertextB64 |-> msg.ciphertextB64, senderName |-> Null]

BroadcastMsg(msg, createdAt) ==
    [type |-> "message", msgId |-> msg.msgId, version |-> msg.version,
     createdAt |-> createdAt, ivB64 |-> msg.ivB64,
     ciphertextB64 |-> msg.ciphertextB64,
     senderName |-> IF msg.senderName # "" THEN msg.senderName ELSE Null]

MessageRow(room, msg, createdAt) ==
    [room_id |-> room, msg_id |-> msg.msgId, version |-> msg.version,
     created_at |-> createdAt, iv_b64 |-> msg.ivB64,
     ciphertext_b64 |-> msg.ciphertextB64,
     sender_name |-> IF msg.senderName # "" THEN msg.senderName ELSE Null]

-----------------------------------------------------------------------------
(* name_claims: display_name is the primary key *)

ClaimRows(claims, senderName) == {r \in claims : r.display_name = senderName}

\* checkNameClaim: [ok, claims], claims being the table afterwards.
\* `.one()` is read as the method reads it: the row, or a falsy value when no
\* row matches.
checkNameClaim_AcceptsAnyKey(claims, senderName, keyFingerprint, t) ==
    LET rows == ClaimRows(claims, senderName)
    IN IF rows = {}
       THEN [ok |-> TRUE,
             claims |-> claims \cup {[display_name |-> senderName,
                                      key_fingerprint |-> keyFingerprint,
                                      claimed_at |-> ToISOString(t)]}]
       ELSE [ok |-> TRUE, claims |-> claims]

checkNameClaim_Overwrites(claims, senderName, keyFingerprint, t) ==
    [ok |-> TRUE,
     claims |-> (claims \ ClaimRows(claims, senderName))
                    \cup {[display_name |-> senderName,
                           key_fingerprint |-> keyFingerprint,
                           claimed_at |-> ToISOString(t)]}]

checkNameClaim_ChecksOnly(claims, senderName, keyFingerprint, t) ==
    LET rows == ClaimRows(claims, senderName)
    IN IF rows = {} \/ \E r \in rows : r.key_fingerprint = keyFingerprint
       THEN [ok |-> TRUE, claims |-> claims]
       ELSE [ok |-> FALSE, claims |-> claims]

checkNameClaim(claims, senderName, keyFingerprint, t) ==
    LET rows == ClaimRows(claims, senderName)
    IN IF rows = {}
       THEN [ok |-> TRUE,
             claims |-> claims \cup {[display_name |-> senderName,
                                      key_fingerprint |-> keyFingerprint,
                                      claimed_at |-> ToISOString(t)]}]
       ELSE IF \E r \in rows : r.key_fingerprint = keyFingerprint
       THEN [ok |-> TRUE, claims |-> claims]
       ELSE [ok |-> FALSE, claims |-> claims]

-----------------------------------------------------------------------------
(* The rate limiter at the head of handleMessage: [ok, limits] *)

RateLimitInline_OffByOne(limits, ip, t, maxMessagesPerMinute) ==
    IF MapHas(limits, ip) /\ t < limits[ip].resetAt
    THEN IF limits[ip].count > maxMessagesPerMinute
         THEN [ok |-> FALSE, limits |-> limits]
         ELSE [ok |-> TRUE,
               limits |-> [limits EXCEPT ![ip].count = @ + 1]]
    ELSE [ok |-> TRUE,
          limits |-> MapSet(limits, ip, [count |-> 1, resetAt |-> t + WindowMs])]

RateLimitInline_NeverResets(limits, ip, t, maxMessagesPerMinute) ==
    IF MapHas(limits, ip)
    THEN IF limits[ip].count >= maxMessagesPerMinute
         THEN [ok |-> FALSE, limits |-> limits]
         ELSE [ok |-> TRUE,
               limits |-> [limits EXCEPT ![ip].count = @ + 1]]
    ELSE [ok |-> TRUE,
          limits |-> MapSet(limits, ip, [count |-> 1, resetAt |-> t + WindowMs])]

RateLimitInline_Slides(limits, ip, t, maxMessagesPerMinute) ==
    IF MapHas(limits, ip) /\ t < limits[ip].resetAt
    THEN IF limits[ip].count >= maxMessagesPerMinute
         THEN [ok |-> FALSE, limits |-> limits]
         ELSE [ok |-> TRUE,
               limits |-> [limits EXCEPT ![ip] = [count |-> @.count + 1,
                                                  resetAt |-> t + WindowMs]]]
    ELSE [ok |-> TRUE,
          limits |-> MapSet(limits, ip, [count |-> 1, resetAt |-> t + WindowMs])]

RateLimitInline(limits, ip, t, maxMessagesPerMinute) ==
    IF MapHas(limits, ip) /\ t < limits[ip].resetAt
    THEN IF limits[ip].count >= maxMessagesPerMinute
         THEN [ok |-> FALSE, limits |-> limits]
         ELSE [ok |-> TRUE,
               limits |-> [limits EXCEPT ![ip].count = @ + 1]]
    ELSE [ok |-> TRUE,
          limits |-> MapSet(limits, ip, [count |-> 1, resetAt |-> t + WindowMs])]

-----------------------------------------------------------------------------
(* messages: (room_id, msg_id) is the primary key *)

PrimaryKeyFree_NoKey(table, row) == TRUE

PrimaryKeyFree(table, row) ==
    ~ \E r \in table : r.room_id = row.room_id /\ r.msg_id = row.msg_id

-----------------------------------------------------------------------------
\* The Worker's database holds no room and no handler is running.
InitWorker ==
    /\ rooms = EmptyMap
    /\ requests = {}
    /\ nSalts = 0

\* No Room page is open and the browser's key store is empty.
InitApp ==
    /\ trustedKeys = EmptyMap
    /\ calls = {}
    /\ verdicts = <<>>
    /\ clients = <<>>
    /\ authored = {}
    /\ crypto = [stage |-> "idle"]

\* The sessions revision's collections are empty.
InitSessions ==
    /\ sessions = {}
    /\ ipConnectionCounts = EmptyMap
    /\ messageRateLimits = EmptyMap

\* No Room page is mounted; localStorage holds no display name.
InitPage ==
    page = [mounted |-> FALSE, localStorage |-> "", displayName |-> "",
            showNameModal |-> FALSE, error |-> "", signingActive |-> FALSE,
            signingKeyRef |-> "", wsRef |-> 0, nWs |-> 0,
            view |-> [displayName |-> "", showNameModal |-> FALSE, error |-> ""],
            keypairs |-> {}, sends |-> {}, nSends |-> 0, wire |-> <<>>,
            msgCache |-> <<>>, nCached |-> 0, nSets |-> 0]

Init ==
    /\ env = [MAX_CONNECTIONS_PER_IP |-> CfgMaxConnections,
              MAX_MESSAGES_PER_MINUTE |-> CfgMaxMessages,
              MAX_MESSAGE_SIZE |-> CfgMaxSize]
    /\ connections = {}
    /\ connectionsByIp = EmptyMap
    /\ rateLimits = EmptyMap
    /\ initialized = FALSE
    /\ roomId = ""
    /\ name_claims = {}
    /\ messages = {}
    /\ sockets = <<>>
    /\ outbox = <<>>
    /\ pending = {}
    /\ now = 0
    /\ nEvents = 0
    /\ response = 0
    /\ InitSessions
    /\ InitPage
    /\ InitWorker
    /\ InitApp

\* A coordinator built with no RATE_LIMIT configuration: the defaults apply.
InitDefault ==
    /\ env = [MAX_CONNECTIONS_PER_IP |-> 0, MAX_MESSAGES_PER_MINUTE |-> 0,
              MAX_MESSAGE_SIZE |-> 0]
    /\ connections = {}
    /\ connectionsByIp = EmptyMap
    /\ rateLimits = EmptyMap
    /\ initialized = FALSE
    /\ roomId = ""
    /\ name_claims = {}
    /\ messages = {}
    /\ sockets = <<>>
    /\ outbox = <<>>
    /\ pending = {}
    /\ now = 0
    /\ nEvents = 0
    /\ response = 0
    /\ InitSessions
    /\ InitPage
    /\ InitWorker
    /\ InitApp

-----------------------------------------------------------------------------
(* fetch: a connection request from `ip` *)

Fetch_CountsRejected(ip, upgrade) ==
    LET maxConnectionsPerIp ==
            OrDefault(env.MAX_CONNECTIONS_PER_IP, DefaultMaxConnectionsPerIp)
        currentConnections ==
            IF MapHas(connectionsByIp, ip) THEN connectionsByIp[ip] ELSE 0
        ws == Len(sockets) + 1
    IN /\ upgrade = "websocket"
       /\ roomId' = RoomIdOfUrl
       /\ connectionsByIp' = MapSet(connectionsByIp, ip, currentConnections + 1)
       /\ IF currentConnections >= maxConnectionsPerIp
          THEN /\ response' = 429
               /\ UNCHANGED <<sockets, outbox, connections>>
          ELSE /\ response' = 101
               /\ sockets' = Append(sockets, [ip |-> ip, phase |-> "open"])
               /\ outbox' = Append(outbox, <<>>)
               /\ connections' = connections \cup {ws}
       /\ UNCHANGED <<env, rateLimits, initialized, name_claims, messages,
                      pending, now, nEvents,
                      workerVars, appVars, sessionsVars, pageVars>>

Fetch(ip, upgrade) ==
    LET maxConnectionsPerIp ==
            OrDefault(env.MAX_CONNECTIONS_PER_IP, DefaultMaxConnectionsPerIp)
        currentConnections ==
            IF MapHas(connectionsByIp, ip) THEN connectionsByIp[ip] ELSE 0
        ws == Len(sockets) + 1
    IN IF upgrade # "websocket"
       THEN /\ response' = 426
            /\ UNCHANGED <<env, connections, connectionsByIp, rateLimits,
                           initialized, roomId, name_claims, messages, sockets,
                           outbox, pending, now, nEvents,
                   workerVars, appVars, sessionsVars, pageVars>>
       ELSE IF currentConnections >= maxConnectionsPerIp
       THEN /\ roomId' = RoomIdOfUrl
            /\ response' = 429
            /\ UNCHANGED <<env, connections, connectionsByIp, rateLimits,
                           initialized, name_claims, messages, sockets, outbox,
                           pending, now, nEvents,
                   workerVars, appVars, sessionsVars, pageVars>>
       ELSE /\ roomId' = RoomIdOfUrl
            \* handleSession
            /\ sockets' = Append(sockets, [ip |-> ip, phase |-> "open"])
            /\ outbox' = Append(outbox, <<>>)
            /\ connections' = connections \cup {ws}
            /\ connectionsByIp' = MapSet(connectionsByIp, ip, currentConnections + 1)
            /\ response' = 101
            /\ UNCHANGED <<env, rateLimits, initialized, name_claims, messages,
                           pending, now, nEvents,
                   workerVars, appVars, sessionsVars, pageVars>>

-----------------------------------------------------------------------------
(* The close and the error listener of handleSession (the same body) *)

Disconnect_KeepsCount(ws) ==
    /\ connections' = connections \ {ws}
    /\ connectionsByIp' = connectionsByIp

Disconnect(ws) ==
    LET ip == sockets[ws].ip
        count == IF MapHas(connectionsByIp, ip) THEN connectionsByIp[ip] ELSE 0
    IN /\ connections' = connections \ {ws}
       /\ connectionsByIp' = IF count <= 1 THEN MapDelete(connectionsByIp, ip)
                             ELSE MapSet(connectionsByIp, ip, count - 1)

\* The transport goes down: readyState leaves OPEN before any listener runs.
SocketDown(ws) ==
    /\ sockets[ws].phase = "open"
    /\ sockets' = [sockets EXCEPT ![ws].phase = "down"]
    /\ UNCHANGED <<env, connections, connectionsByIp, rateLimits, initialized,
                   roomId, name_claims, messages, outbox, pending, now, nEvents,
                   response, workerVars, appVars, sessionsVars, pageVars>>

\* From now on send on this socket throws, while readyState still reads OPEN.
SocketBreaks(ws) ==
    /\ sockets[ws].phase = "open"
    /\ sockets' = [sockets EXCEPT ![ws].phase = "broken"]
    /\ UNCHANGED <<env, connections, connectionsByIp, rateLimits, initialized,
                   roomId, name_claims, messages, outbox, pending, now, nEvents,
                   response, workerVars, appVars, sessionsVars, pageVars>>

\* An error event is followed by the socket's close event.
ErrorEvent(ws) ==
    /\ sockets[ws].phase \in {"open", "down", "broken"}
    /\ sockets' = [sockets EXCEPT ![ws].phase = "errored"]
    /\ Disconnect(ws)
    /\ UNCHANGED <<env, rateLimits, initialized, roomId, name_claims, messages,
                   outbox, pending, now, nEvents,
                   response, workerVars, appVars, sessionsVars, pageVars>>

\* A close listener that also drops the address's rate-limit entry
CloseEvent_ResetsLimit(ws) ==
    /\ sockets[ws].phase \in {"open", "down", "broken", "errored"}
    /\ sockets' = [sockets EXCEPT ![ws].phase = "closed"]
    /\ Disconnect(ws)
    /\ rateLimits' = MapDelete(rateLimits, sockets[ws].ip)
    /\ UNCHANGED <<env, initialized, roomId, name_claims, messages,
                   outbox, pending, now, nEvents,
                   response, workerVars, appVars, sessionsVars, pageVars>>

CloseEvent(ws) ==
    /\ sockets[ws].phase \in {"open", "down", "broken", "errored"}
    /\ sockets' = [sockets EXCEPT ![ws].phase = "closed"]
    /\ Disconnect(ws)
    /\ UNCHANGED <<env, rateLimits, initialized, roomId, name_claims, messages,
                   outbox, pending, now, nEvents,
                   response, workerVars, appVars, sessionsVars, pageVars>>

-----------------------------------------------------------------------------
(* The message listener and handleMessage, up to the await of the insert *)

MissingRequiredFields_SkipsIv(msg) ==
    \/ msg.msgId = ""
    \/ msg.ciphertextB64 = ""
    \/ msg.version = NotANumber

MissingRequiredFields(msg) ==
    \/ msg.msgId = ""
    \/ msg.ivB64 = ""
    \/ msg.ciphertextB64 = ""
    \/ msg.version = NotANumber

BroadcastTargets_NoReadyCheck == connections

\* The sessions the forEach of the broadcast sends to
BroadcastTargets == {c \in connections : ReadyState(c) = OPEN}

\* client.send(messageStr) throws
Throws(c) == sockets[c].phase = "broken"

\* The sessions forEach reaches before a send throws: a Set is walked in
\* insertion order, which is the order of the socket numbers, and nothing
\* catches inside the loop.
Reached(targets) == {c \in targets : \A d \in targets : Throws(d) => c < d}

\* The outcome of handleMessage for `data` from `ws`:
\*   [limits, claims, checked, reply, broadcast, persist]
\* reply: the error frames sent to ws; broadcast: the envelopes sent to the
\* sessions; persist: the rows whose insert is awaited.
handleMessage(ws, ip, data) ==
    LET maxMessagesPerMinute ==
            OrDefault(env.MAX_MESSAGES_PER_MINUTE, DefaultMaxMessagesPerMinute)
        maxMessageSize == OrDefault(env.MAX_MESSAGE_SIZE, DefaultMaxMessageSize)
        rl == RateLimitInline(rateLimits, ip, now, maxMessagesPerMinute)
        claim == checkNameClaim(name_claims, data.senderName, data.keyFingerprint, now)
        createdAt == ToISOString(now)
        Reject(limits, frame) ==
            [limits |-> limits, claims |-> name_claims, checked |-> FALSE,
             reply |-> <<frame>>, broadcast |-> <<>>, persist |-> {}]
    IN IF ~rl.ok
       THEN Reject(rateLimits, ErrorFrame("Rate limit exceeded"))
       ELSE IF data.kind = "null"
       THEN Reject(rl.limits, ErrorFrame("Invalid message format"))
       ELSE IF data.type # "message"
       THEN Reject(rl.limits, ErrorFrame("Invalid message type"))
       ELSE IF MissingRequiredFields(data)
       THEN Reject(rl.limits, ErrorFrame("Missing required fields"))
       ELSE IF Len(data.ciphertextB64) > maxMessageSize
       THEN Reject(rl.limits, ErrorFrame("Message too large"))
       ELSE IF data.senderName # "" /\ data.keyFingerprint # "" /\ ~claim.ok
       THEN [Reject(rl.limits, NameTakenFrame(data.senderName))
                EXCEPT !.checked = TRUE]
       ELSE [limits |-> rl.limits,
             claims |-> IF data.senderName # "" /\ data.keyFingerprint # ""
                        THEN claim.claims ELSE name_claims,
             checked |-> data.senderName # "" /\ data.keyFingerprint # "",
             reply |-> <<>>,
             broadcast |-> <<BroadcastMsg(data, createdAt)>>,
             persist |-> {MessageRow(IF roomId # "" THEN roomId ELSE "unknown",
                                     data, createdAt)}]

HandleMessage(ws, data) ==
    /\ sockets[ws].phase = "open"
    /\ LET ip == sockets[ws].ip
           r == IF data.kind = "unparseable"
                THEN [limits |-> rateLimits, claims |-> name_claims,
                      checked |-> FALSE,
                      reply |-> <<ErrorFrame("Invalid message format")>>,
                      broadcast |-> <<>>, persist |-> {}]
                ELSE handleMessage(ws, ip, data)
           replied == IF r.reply = <<>> THEN outbox ELSE Send(outbox, ws, r.reply[1])
           \* a send of the broadcast throws: handleMessage rejects before
           \* the insert, and the listener's catch answers the sender
           thrown == r.broadcast # <<>> /\ \E c \in BroadcastTargets : Throws(c)
       IN /\ rateLimits' = r.limits
          /\ name_claims' = r.claims
          /\ initialized' = (initialized \/ r.checked)
          /\ outbox' = IF r.broadcast = <<>> THEN replied
                       ELSE IF thrown
                       THEN Send(SendAll(replied, Reached(BroadcastTargets),
                                         r.broadcast[1]),
                                 ws, ErrorFrame("Invalid message format"))
                       ELSE SendAll(replied, BroadcastTargets, r.broadcast[1])
          /\ pending' = IF thrown THEN pending
                        ELSE pending \cup
                 {[n |-> nEvents + 1, ws |-> ws, row |-> row] : row \in r.persist}
          /\ nEvents' = nEvents + 1
    /\ UNCHANGED <<env, connections, connectionsByIp, roomId, messages, sockets, now,
                   response, workerVars, appVars, sessionsVars, pageVars>>

-----------------------------------------------------------------------------
(* The insert into messages completes and handleMessage resumes *)

PersistOk(h) ==
    /\ PrimaryKeyFree(messages, h.row)
    /\ messages' = messages \cup {h.row}
    /\ pending' = pending \ {h}
    /\ UNCHANGED <<env, connections, connectionsByIp, rateLimits, initialized,
                   roomId, name_claims, sockets, outbox, now, nEvents,
                   response, workerVars, appVars, sessionsVars, pageVars>>

PersistFail_TellsSender(h) ==
    /\ pending' = pending \ {h}
    /\ outbox' = Send(outbox, h.ws, ErrorFrame("Failed to store message"))
    /\ UNCHANGED <<env, connections, connectionsByIp, rateLimits, initialized,
                   roomId, name_claims, messages, sockets, now, nEvents,
                   response, workerVars, appVars, sessionsVars, pageVars>>

\* The insert throws (a primary key conflict or any D1 error): caught and logged.
PersistFail(h) ==
    /\ pending' = pending \ {h}
    /\ UNCHANGED <<env, connections, connectionsByIp, rateLimits, initialized,
                   roomId, name_claims, messages, sockets, outbox, now, nEvents,
                   response, workerVars, appVars, sessionsVars, pageVars>>

-----------------------------------------------------------------------------
\* Date.now() moves on by `ms`
Advance(ms) ==
    /\ now' = now + ms
    /\ UNCHANGED <<env, connections, connectionsByIp, rateLimits, initialized,
                   roomId, name_claims, messages, sockets, outbox, pending, nEvents,
                   response, workerVars, appVars, sessionsVars, pageVars>>

-----------------------------------------------------------------------------
(* Spec: the admission pipeline and the name-claim ledger.  Sessions of    *)
(* one address connect, send frames, disconnect and reconnect.             *)

Next ==
    \/ \E ip \in {"ip1"} :
           Fetch(ip, "websocket") /\ Len(sockets') <= MaxSockets
    \/ \E ws \in DOMAIN sockets : ErrorEvent(ws)
    \/ \E ws \in DOMAIN sockets : CloseEvent(ws)
    \/ \E ws \in DOMAIN sockets, data \in LedgerFrames :
           /\ nEvents < MaxMsgs
           /\ HandleMessage(ws, data)
           /\ Cardinality(pending') <= MaxPending
    \/ \E h \in pending : PersistOk(h)
    \/ \E h \in pending : PersistFail(h)
    \/ now < MaxTicks * TickMs /\ Advance(TickMs)

Spec == Init /\ [][Next]_vars

-----------------------------------------------------------------------------
(* SpecConn: connection admission and release, two addresses.              *)

NextConn ==
    \/ \E ip \in Ips, upgrade \in {"websocket", "none"} :
           Fetch(ip, upgrade) /\ Len(sockets') <= MaxConnSockets
    \/ \E ws \in DOMAIN sockets : SocketDown(ws)
    \/ \E ws \in DOMAIN sockets : ErrorEvent(ws)
    \/ \E ws \in DOMAIN sockets : CloseEvent(ws)

SpecConn == Init /\ [][NextConn]_vars

-----------------------------------------------------------------------------
(* SpecCast: broadcast and persistence among up to MaxCastSockets sessions. *)

NextCast ==
    \/ \E ip \in {"ip1"} :
           Fetch(ip, "websocket") /\ Len(sockets') <= MaxCastSockets
    \/ \E ws \in DOMAIN sockets : SocketDown(ws)
    \/ \E ws \in DOMAIN sockets : CloseEvent(ws)
    \/ \E ws \in DOMAIN sockets, data \in CastFrames :
           /\ nEvents < MaxCastMsgs
           /\ HandleMessage(ws, data)
           /\ Cardinality(pending') <= MaxPending
    \/ \E h \in pending : PersistOk(h)
    \/ \E h \in pending : PersistFail(h)

SpecCast == Init /\ [][NextCast]_vars

-----------------------------------------------------------------------------
(* SpecPipe: every stage of the admission pipeline, on every kind of frame. *)

NextPipe ==
    \/ \E ip \in {"ip1"} :
           Fetch(ip, "websocket") /\ Len(sockets') <= MaxSockets
    \/ \E ws \in DOMAIN sockets : CloseEvent(ws)
    \/ \E ws \in DOMAIN sockets, data \in PipeFrames :
           /\ nEvents < MaxPipeMsgs
           /\ HandleMessage(ws, data)
           /\ Cardinality(pending') <= MaxPending
    \/ \E h \in pending : PersistOk(h)
    \/ \E h \in pending : PersistFail(h)

SpecPipe == Init /\ [][NextPipe]_vars

-----------------------------------------------------------------------------
(* SpecRate: one session under the default limits (30 messages a window).  *)

NextRate ==
    \/ Fetch("ip1", "websocket") /\ Len(sockets') <= 1
    \/ \E ws \in DOMAIN sockets, data \in RateFrames :
           /\ nEvents < MaxRateMsgs
           /\ HandleMessage(ws, data)
           /\ Cardinality(pending') <= 1
    \/ \E h \in pending : PersistOk(h)
    \/ \E h \in pending : PersistFail(h)
    \/ now < MaxRateTicks * RateTickMs /\ Advance(RateTickMs)

SpecRate == InitDefault /\ [][NextRate]_vars

-----------------------------------------------------------------------------
(* SpecWire: sessions of one address, up to the connection ceiling and one *)
(* request beyond it, send frames of every kind, past the rate ceiling.    *)

NextWire ==
    \/ Fetch("ip1", "websocket") /\ Len(sockets') <= CfgMaxConnections
    \/ \E ws \in DOMAIN sockets, data \in WireFrames :
           /\ nEvents < MaxWireMsgs
           /\ HandleMessage(ws, data)
           /\ Cardinality(pending') <= 1
    \/ \E h \in pending : PersistOk(h)
    \/ \E h \in pending : PersistFail(h)

SpecWire == Init /\ [][NextWire]_vars

-----------------------------------------------------------------------------
(* SpecLimit: sessions of two addresses under a ceiling of CfgMaxMessages  *)
(* frames a window, while the clock moves past the window.                 *)

NextLimit ==
    \/ \E ip \in Ips :
           Fetch(ip, "websocket") /\ Len(sockets') <= MaxSockets
    \/ \E ws \in DOMAIN sockets, data \in RateFrames :
           /\ nEvents < MaxLimitMsgs
           /\ HandleMessage(ws, data)
           /\ Cardinality(pending') <= 1
    \/ \E h \in pending : PersistOk(h)
    \/ \E h \in pending : PersistFail(h)
    \/ now < MaxTicks * TickMs /\ Advance(TickMs)

SpecLimit == Init /\ [][NextLimit]_vars

-----------------------------------------------------------------------------
(* The client's trust store (app/src/utils/keyStore.ts) and the            *)
(* classification of an incoming payload (verifyAndCheckTrust in Room.tsx) *)

\* ECDSA P-256 public keys as JWK.  Jwk1x is the key of Jwk1 exported with
\* one more member.  BadJwk is a JWK importPublicKeyJwk rejects.
Jwk1 == [kty |-> "EC", crv |-> "P-256", x |-> "x1", y |-> "y1"]
Jwk1x == [kty |-> "EC", crv |-> "P-256", x |-> "x1", y |-> "y1", ext |-> TRUE]
Jwk2 == [kty |-> "EC", crv |-> "P-256", x |-> "x2", y |-> "y1"]
BadJwk == [kty |-> "oct", crv |-> "", x |-> "", y |-> ""]
NoJwk == [kty |-> "", crv |-> "", x |-> "", y |-> ""]
NoSignature == [by |-> <<>>, over |-> <<>>]

\* signMessage: the signature of the key pair with public point (x, y) over
\* the text, the display name, the client timestamp and the message id.
signMessage(jwk, text, displayName, clientTs, msgId) ==
    [by |-> <<jwk.x, jwk.y>>, over |-> <<text, displayName, clientTs, msgId>>]

\* importPublicKeyJwk: the CryptoKey, or the call throws
importPublicKeyJwk(jwk) ==
    IF jwk.kty = "EC" /\ jwk.crv = "P-256"
    THEN [throws |-> FALSE, point |-> <<jwk.x, jwk.y>>]
    ELSE [throws |-> TRUE, point |-> <<>>]

verifySignature(senderKey, signatureB64, text, displayName, clientTs, msgId) ==
    /\ signatureB64.by = senderKey.point
    /\ signatureB64.over = <<text, displayName, clientTs, msgId>>

jwkEqual_CurveOnly(a, b) == a.crv = b.crv /\ a.kty = b.kty

jwkEqual(a, b) == a.x = b.x /\ a.y = b.y /\ a.crv = b.crv /\ a.kty = b.kty

trustKeyId(room, displayName) == room \o ":" \o displayName

\* A received message after decryption: the payload and the msgId of its
\* envelope.  signatureB64 = NoSignature and senderPublicKeyJwk = NoJwk stand for an
\* absent member.
Received(displayName, jwk, signatureB64) ==
    [msgId |-> "m1",
     payload |-> [text |-> "hi", displayName |-> displayName, clientTs |-> 1000,
                  signatureB64 |-> signatureB64, senderPublicKeyJwk |-> jwk]]

Signed(displayName, jwk) ==
    Received(displayName, jwk, signMessage(jwk, "hi", displayName, 1000, "m1"))

ReceivedSet ==
    { Signed("ann", Jwk1), Signed("ann", Jwk1x), Signed("ann", Jwk2),
      Signed("bob", Jwk1),
      Received("ann", Jwk1, NoSignature),
      Received("ann", NoJwk, signMessage(Jwk1, "hi", "ann", 1000, "m1")),
      \* a signature lifted from another message of the same sender
      Received("ann", Jwk1, signMessage(Jwk1, "hi", "ann", 1000, "m2")),
      \* a signature of another key
      Received("ann", Jwk2, signMessage(Jwk1, "hi", "ann", 1000, "m1")),
      Received("ann", BadJwk, signMessage(Jwk1, "hi", "ann", 1000, "m1")) }

\* The calls of verifyAndCheckTrust are numbered in the order they start.
NextCall == Cardinality(calls) + Len(verdicts) + 1

Return(n, msg, status) ==
    verdicts' = Append(verdicts, [n |-> n, msg |-> msg, status |-> status])

\* verifyAndCheckTrust, from its start to the await of getTrustedKey.  The
\* awaits of importPublicKeyJwk and of verifySignature read no shared state.
VerifyAndCheckTrust(msg, currentRoomId) ==
    LET payload == msg.payload
        senderKey == importPublicKeyJwk(payload.senderPublicKeyJwk)
    IN /\ IF payload.signatureB64 = NoSignature \/ payload.senderPublicKeyJwk = NoJwk
          THEN Return(NextCall, msg, "unsigned") /\ calls' = calls
          ELSE IF senderKey.throws
          THEN Return(NextCall, msg, "mismatch") /\ calls' = calls
          ELSE IF ~verifySignature(senderKey, payload.signatureB64, payload.text,
                                   payload.displayName, payload.clientTs, msg.msgId)
          THEN Return(NextCall, msg, "mismatch") /\ calls' = calls
          ELSE /\ calls' = calls \cup
                      {[n |-> NextCall, msg |-> msg, roomId |-> currentRoomId,
                        pc |-> "getTrustedKey"]}
               /\ verdicts' = verdicts
       /\ UNCHANGED <<coordinatorVars, sessionsVars, pageVars, workerVars, trustedKeys, clients,
                      authored, crypto>>

\* getTrustedKey resolves: the call goes on to saveTrustedKey, or returns.
GetTrustedKey(c) ==
    LET id == trustKeyId(c.roomId, c.msg.payload.displayName)
    IN /\ c.pc = "getTrustedKey"
       /\ IF ~MapHas(trustedKeys, id)
          THEN /\ calls' = (calls \ {c}) \cup {[c EXCEPT !.pc = "saveTrustedKey"]}
               /\ verdicts' = verdicts
          ELSE /\ calls' = calls \ {c}
               /\ IF jwkEqual(trustedKeys[id].publicKeyJwk,
                              c.msg.payload.senderPublicKeyJwk)
                  THEN Return(c.n, c.msg, "verified")
                  ELSE Return(c.n, c.msg, "mismatch")
       /\ UNCHANGED <<coordinatorVars, sessionsVars, pageVars, workerVars, trustedKeys, clients,
                      authored, crypto>>

SaveTrustedKey_Skips(c) ==
    /\ c.pc = "saveTrustedKey"
    /\ calls' = calls \ {c}
    /\ Return(c.n, c.msg, "new")
    /\ UNCHANGED <<coordinatorVars, sessionsVars, pageVars, workerVars, trustedKeys, clients,
                   authored, crypto>>

\* saveTrustedKey resolves: store.put(value, key), and the call returns.
SaveTrustedKey(c) ==
    LET id == trustKeyId(c.roomId, c.msg.payload.displayName)
    IN /\ c.pc = "saveTrustedKey"
       /\ trustedKeys' =
              MapSet(trustedKeys, id,
                     [publicKeyJwk |-> c.msg.payload.senderPublicKeyJwk,
                      firstSeen |-> now])
       /\ calls' = calls \ {c}
       /\ Return(c.n, c.msg, "new")
       /\ UNCHANGED <<coordinatorVars, sessionsVars, pageVars, workerVars, clients, authored, crypto>>

\* Date.now() moves on while the page is open
Tick(ms) ==
    /\ now' = now + ms
    /\ UNCHANGED <<env, connections, connectionsByIp, rateLimits, initialized,
                   roomId, name_claims, messages, sockets, outbox, pending,
                   nEvents, response, workerVars, appVars, sessionsVars, pageVars>>

-----------------------------------------------------------------------------
(* SpecTrust: the messages of a room are classified as loadHistory and the *)
(* message listener do it, the calls overlapping at their awaits.          *)

NextTrust ==
    \/ \E msg \in ReceivedSet :
           /\ NextCall <= MaxCalls
           /\ Cardinality(calls) < MaxInFlight
           /\ VerifyAndCheckTrust(msg, RoomIdOfUrl)
    \/ \E c \in calls : GetTrustedKey(c)
    \/ \E c \in calls : SaveTrustedKey(c)
    \/ now < MaxTicks * TickMs /\ Tick(TickMs)

SpecTrust == Init /\ [][NextTrust]_vars

-----------------------------------------------------------------------------
(* SpecTrustSeq: the messages are classified one after another, a call     *)
(* starting when the one before it has returned.                           *)

NextTrustSeq ==
    \/ \E msg \in ReceivedSet :
           /\ NextCall <= MaxSeqCalls
           /\ calls = {}
           /\ VerifyAndCheckTrust(msg, RoomIdOfUrl)
    \/ \E c \in calls : GetTrustedKey(c)
    \/ \E c \in calls : SaveTrustedKey(c)

SpecTrustSeq == Init /\ [][NextTrustSeq]_vars

-----------------------------------------------------------------------------
(* The envelope codec of the client (deriveKeyPBKDF2, buildAAD,            *)
(* encryptPayload, decryptPayload).  PBKDF2 and AES-GCM are ideal: a key   *)
(* is the triple it was derived from, and a ciphertext opens under the     *)
(* key, the nonce and the additional data it was sealed with and under no  *)
(* other.                                                                  *)

\* btoa over the bytes, and atob back to them
bytesToBase64(bytes) == [b64 |-> bytes]
base64ToBytes(b64) == b64.b64

deriveKeyPBKDF2_IgnoresSalt(passphrase, saltB64, iterations) ==
    [passphrase |-> passphrase, iterations |-> iterations, salt |-> ""]

deriveKeyPBKDF2(passphrase, saltB64, iterations) ==
    [passphrase |-> passphrase, iterations |-> iterations,
     salt |-> base64ToBytes(saltB64)]

buildAAD_NoVersion(room, version, msgId) == room \o "|" \o msgId

buildAAD_NoMsgId(room, version, msgId) == room \o "|" \o ToString(version)

\* `${roomId}|${version}|${msgId}`
buildAAD(room, version, msgId) ==
    room \o "|" \o ToString(version) \o "|" \o msgId

\* The members of a payload in the order sendMessage creates them
MemberOrder ==
    <<"text", "displayName", "clientTs", "signatureB64", "senderPublicKeyJwk">>

JSONStringify_DropsKey(value) ==
    LET keys == SelectSeq(MemberOrder,
                          LAMBDA k : k \in DOMAIN value /\ k # "senderPublicKeyJwk")
    IN [i \in 1..Len(keys) |-> <<keys[i], value[keys[i]]>>]

\* JSON.stringify of a payload: its members as the text lists them
JSONStringify(value) ==
    LET keys == SelectSeq(MemberOrder, LAMBDA k : k \in DOMAIN value)
    IN [i \in 1..Len(keys) |-> <<keys[i], value[keys[i]]>>]

\* JSON.parse: the object with the members of the text, the last one winning
JSONParse(json) ==
    [k \in {json[i][1] : i \in DOMAIN json} |->
        json[CHOOSE i \in DOMAIN json :
                 /\ json[i][1] = k
                 /\ \A j \in DOMAIN json : json[j][1] = k => j <= i][2]]

\* encryptPayload, `iv` being the 12 random bytes it draws
encryptPayload(key, room, version, msgId, payload, iv) ==
    LET aad == buildAAD(room, version, msgId)
        payloadBytes == JSONStringify(payload)
        ciphertext == [key |-> key, iv |-> iv, additionalData |-> aad,
                       plaintext |-> payloadBytes]
    IN [ivB64 |-> bytesToBase64(iv), ciphertextB64 |-> bytesToBase64(ciphertext)]

\* decryptPayload: [throws, payload]
decryptPayload(key, room, version, msgId, ivB64, ciphertextB64) ==
    LET iv == base64ToBytes(ivB64)
        ciphertext == base64ToBytes(ciphertextB64)
        aad == buildAAD(room, version, msgId)
    IN IF /\ ciphertext.key = key
          /\ ciphertext.iv = iv
          /\ ciphertext.additionalData = aad
       THEN [throws |-> FALSE, payload |-> JSONParse(ciphertext.plaintext)]
       ELSE [throws |-> TRUE, payload |-> <<>>]

\* The inputs of an exchange
Passphrases == {"correct-horse", "battery-staple"}
Salts == {bytesToBase64("salt-A"), bytesToBase64("salt-B")}
Iterations == {100000, 1000}
RoomIds == {RoomIdOfUrl, "attic"}
Versions == {1, 2}
MsgIds == {"ABC123", "ABC124", "1|ABC123"}
Ivs == {"iv-1", "iv-2"}
Payloads ==
    { [text |-> "hi", displayName |-> "bob", clientTs |-> 1000],
      [text |-> "hi", displayName |-> "bob", clientTs |-> 1000,
       signatureB64 |-> signMessage(Jwk1, "hi", "bob", 1000, "ABC123"),
       senderPublicKeyJwk |-> Jwk1] }

\* The arguments of one encryptPayload call are fixed at the start.
InitCrypto ==
    /\ env = [MAX_CONNECTIONS_PER_IP |-> CfgMaxConnections,
              MAX_MESSAGES_PER_MINUTE |-> CfgMaxMessages,
              MAX_MESSAGE_SIZE |-> CfgMaxSize]
    /\ connections = {}
    /\ connectionsByIp = EmptyMap
    /\ rateLimits = EmptyMap
    /\ initialized = FALSE
    /\ roomId = ""
    /\ name_claims = {}
    /\ messages = {}
    /\ sockets = <<>>
    /\ outbox = <<>>
    /\ pending = {}
    /\ now = 0
    /\ nEvents = 0
    /\ response = 0
    /\ InitSessions
    /\ InitPage
    /\ InitWorker
    /\ trustedKeys = EmptyMap
    /\ calls = {}
    /\ verdicts = <<>>
    /\ clients = <<>>
    /\ authored = {}
    /\ \E passphrase \in Passphrases, saltB64 \in Salts, iterations \in Iterations,
          room \in RoomIds, version \in Versions, msgId \in MsgIds,
          payload \in Payloads :
           crypto = [stage |-> "input",
                     key |-> deriveKeyPBKDF2(passphrase, saltB64, iterations),
                     roomId |-> room, version |-> version, msgId |-> msgId,
                     payload |-> payload]

EncryptPayload(iv) ==
    /\ crypto.stage = "input"
    /\ crypto' = [crypto EXCEPT !.stage = "sealed"] @@
                 [sealed |-> encryptPayload(crypto.key, crypto.roomId,
                                            crypto.version, crypto.msgId,
                                            crypto.payload, iv)]
    /\ UNCHANGED <<coordinatorVars, sessionsVars, pageVars, workerVars, trustedKeys, calls, verdicts,
                   clients, authored>>

DecryptPayload(key, room, version, msgId) ==
    /\ crypto.stage = "sealed"
    /\ crypto' = [crypto EXCEPT !.stage = "opened"] @@
                 [with |-> [key |-> key, roomId |-> room, version |-> version,
                            msgId |-> msgId],
                  opened |-> decryptPayload(key, room, version, msgId,
                                            crypto.sealed.ivB64,
                                            crypto.sealed.ciphertextB64)]
    /\ UNCHANGED <<coordinatorVars, sessionsVars, pageVars, workerVars, trustedKeys, calls, verdicts,
                   clients, authored>>

NextCrypto ==
    \/ \E iv \in Ivs : EncryptPayload(iv)
    \/ \E passphrase \in Passphrases, saltB64 \in Salts, iterations \in Iterations,
          room \in RoomIds, version \in Versions, msgId \in MsgIds :
           DecryptPayload(deriveKeyPBKDF2(passphrase, saltB64, iterations),
                          room, version, msgId)

SpecCrypto == InitCrypto /\ [][NextCrypto]_vars

-----------------------------------------------------------------------------
(* The Worker's admin handlers on the rooms table (api/src/index.ts).  A   *)
(* handler runs from one await to the next; the handlers of different      *)
(* requests interleave at their awaits.                                    *)

\* generateSalt: the n-th draw of 32 random bytes, no two draws alike
generateSalt(n) == bytesToBase64("salt-" \o ToString(n))

\* handleCreateRoom: INSERT INTO rooms ... VALUES (?, ?, ?, ?, 1, ?).  The
\* insert fails when the generated id is taken (room_id is the primary key).
HandleCreateRoom(room, title, kdfItersOfBody) ==
    LET saltB64 == generateSalt(nSalts + 1)
        kdfIters == OrDefault(kdfItersOfBody, DefaultKdfIters)
    IN /\ nSalts' = nSalts + 1
       /\ rooms' = IF MapHas(rooms, room) THEN rooms
                   ELSE MapSet(rooms, room,
                               [room_id |-> room, title |-> title,
                                salt_b64 |-> saltB64, kdf_iters |-> kdfIters,
                                version |-> 1, created_at |-> ToISOString(now)])
       /\ UNCHANGED <<coordinatorVars, sessionsVars, pageVars, requests, appVars>>

\* handleRotatePassphrase, up to the await of request.json(): the version
\* is read and the new salt drawn.
HandleRotatePassphrase(room, kdfItersOfBody) ==
    IF ~MapHas(rooms, room)
    THEN UNCHANGED vars
    ELSE /\ requests' = requests \cup
                {[n |-> nSalts + 1, roomId |-> room,
                  newVersion |-> rooms[room].version + 1,
                  newSaltB64 |-> generateSalt(nSalts + 1),
                  kdfIters |-> OrDefault(kdfItersOfBody, DefaultKdfIters)]}
         /\ nSalts' = nSalts + 1
         /\ UNCHANGED <<coordinatorVars, sessionsVars, pageVars, rooms, appVars>>

\* handleRotatePassphrase resumes:
\* UPDATE rooms SET salt_b64 = ?, kdf_iters = ?, version = ? WHERE room_id = ?
RotateUpdate(r) ==
    /\ rooms' = IF MapHas(rooms, r.roomId)
                THEN [rooms EXCEPT ![r.roomId].salt_b64 = r.newSaltB64,
                                   ![r.roomId].kdf_iters = r.kdfIters,
                                   ![r.roomId].version = r.newVersion]
                ELSE rooms
    /\ requests' = requests \ {r}
    /\ UNCHANGED <<coordinatorVars, sessionsVars, pageVars, nSalts, appVars>>

\* handleUpdateRoom: UPDATE rooms SET title = ? WHERE room_id = ?
HandleUpdateRoom(room, title) ==
    /\ rooms' = IF MapHas(rooms, room)
                THEN [rooms EXCEPT ![room].title = title] ELSE rooms
    /\ UNCHANGED <<coordinatorVars, sessionsVars, pageVars, requests, nSalts, appVars>>

-----------------------------------------------------------------------------
(* The Room page (app/src/pages/Room.tsx): loadRoom, sendMessage and       *)
(* decryptMessage.                                                         *)

\* handleGetRoom's answer
RoomInfo(room) ==
    [roomId |-> rooms[room].room_id, title |-> rooms[room].title,
     saltB64 |-> rooms[room].salt_b64, kdfIters |-> rooms[room].kdf_iters,
     version |-> rooms[room].version]

\* loadRoom: the page fetches the room and derives its key from the stored
\* passphrase and the room's salt and iteration count.
LoadRoom(passphrase, room) ==
    /\ MapHas(rooms, room)
    /\ clients' = Append(clients,
           [passphrase |-> passphrase, room |-> RoomInfo(room),
            cryptoKey |-> deriveKeyPBKDF2(passphrase, RoomInfo(room).saltB64,
                                          RoomInfo(room).kdfIters),
            messages |-> <<>>])
    /\ UNCHANGED <<coordinatorVars, sessionsVars, pageVars, workerVars, trustedKeys, calls, verdicts,
                   authored, crypto>>

\* sendMessage of page c, unsigned: the frame it sends and the entry it adds
\* to its own list.
SendMessage(c, text, iv) ==
    LET msgId == "M" \o ToString(Cardinality(authored) + 1)
        payload == [text |-> text, displayName |-> "bob", clientTs |-> now]
        sealed == encryptPayload(clients[c].cryptoKey, clients[c].room.roomId,
                                 clients[c].room.version, msgId, payload, iv)
    IN /\ authored' = authored \cup
              {[type |-> "message", msgId |-> msgId,
                version |-> clients[c].room.version,
                ivB64 |-> sealed.ivB64, ciphertextB64 |-> sealed.ciphertextB64]}
       /\ clients' = [clients EXCEPT ![c].messages =
              Append(@, [msgId |-> msgId, text |-> text, isOwn |-> TRUE,
                         error |-> FALSE, trustStatus |-> "unsigned"])]
       /\ UNCHANGED <<coordinatorVars, sessionsVars, pageVars, workerVars, trustedKeys, calls, verdicts,
                      crypto>>

\* decryptMessage of page c on a message of the room's history or of a
\* broadcast, which carry msgId, version, iv and ciphertext as they were sent.
DecryptMessage(c, msg) ==
    LET opened == decryptPayload(clients[c].cryptoKey, clients[c].room.roomId,
                                 msg.version, msg.msgId, msg.ivB64,
                                 msg.ciphertextB64)
        shown == IF opened.throws
                 THEN [msgId |-> msg.msgId, text |-> "[Unable to decrypt]",
                       isOwn |-> FALSE, error |-> TRUE,
                       trustStatus |-> "unsigned"]
                 ELSE [msgId |-> msg.msgId, text |-> opened.payload.text,
                       isOwn |-> FALSE, error |-> FALSE,
                       trustStatus |-> "unsigned"]
    IN /\ ~ \E i \in DOMAIN clients[c].messages :
               clients[c].messages[i].msgId = msg.msgId
       /\ clients' = [clients EXCEPT ![c].messages = Append(@, shown)]
       /\ UNCHANGED <<coordinatorVars, sessionsVars, pageVars, workerVars, trustedKeys, calls, verdicts,
                      authored, crypto>>

-----------------------------------------------------------------------------
(* SpecEpoch: one room is created, renamed and rotated by concurrent admin *)
(* requests while pages holding the same passphrase open it, send and read. *)

NextEpoch ==
    \/ \E kdfIters \in {0, 1000} :
           /\ nSalts < MaxSalts
           /\ HandleCreateRoom(RoomIdOfUrl, "Soup", kdfIters)
    \/ /\ nSalts < MaxSalts
       /\ Cardinality(requests) < MaxInFlight
       /\ HandleRotatePassphrase(RoomIdOfUrl, 0)
    \/ \E r \in requests : RotateUpdate(r)
    \/ HandleUpdateRoom(RoomIdOfUrl, "Stew")
    \/ /\ Len(clients) < MaxClients
       /\ LoadRoom("correct-horse", RoomIdOfUrl)
    \/ \E c \in DOMAIN clients :
           /\ Cardinality(authored) < MaxAuthored
           /\ SendMessage(c, "hi", "iv-1")
    \/ \E c \in DOMAIN clients, msg \in authored : DecryptMessage(c, msg)

SpecEpoch == Init /\ [][NextEpoch]_vars

-----------------------------------------------------------------------------
(* Vocabulary of the properties *)

\* The frame is well formed: it passes every structural stage of the pipeline.
WellFormed(data) ==
    /\ data.kind = "object"
    /\ data.type = "message"
    /\ data.msgId # "" /\ data.ivB64 # "" /\ data.ciphertextB64 # ""
    /\ data.version # NotANumber
    /\ Len(data.ciphertextB64) <=
           OrDefault(env.MAX_MESSAGE_SIZE, DefaultMaxMessageSize)

\* The frame carries a display name and a key fingerprint.
ClaimsName(data) == data.senderName # "" /\ data.keyFingerprint # ""

\* The fingerprints the ledger records for a display name
Owners(senderName) ==
    {r.key_fingerprint : r \in ClaimRows(name_claims, senderName)}

IsEnvelopeOf(frame, data) ==
    /\ frame.type = "message"
    /\ frame.msgId = data.msgId
    /\ frame.version = data.version
    /\ frame.ivB64 = data.ivB64
    /\ frame.ciphertextB64 = data.ciphertextB64
    /\ frame.senderName = (IF data.senderName = "" THEN Null ELSE data.senderName)

IsNameTaken(frame) ==
    frame.type = "error" /\ "code" \in DOMAIN frame /\ frame.code = "name_taken"

IsRateLimitError(frame) ==
    frame.type = "error" /\ frame.message = "Rate limit exceeded"

\* In this step exactly one frame was sent to ws.
OneFrameTo(ws) ==
    /\ Len(outbox'[ws]) = Len(outbox[ws]) + 1
    /\ SubSeq(outbox'[ws], 1, Len(outbox[ws])) = outbox[ws]

SentTo(ws) == outbox'[ws][Len(outbox'[ws])]

NothingSentTo(ws) == outbox'[ws] = outbox[ws]

\* In this step the frame from ws was accepted: its envelope went out and
\* the insert of its row was started.
Accepted(ws, data) ==
    /\ OneFrameTo(ws) /\ IsEnvelopeOf(SentTo(ws), data)
    /\ \E h \in pending' \ pending :
           /\ h.ws = ws
           /\ h.row.msg_id = data.msgId
           /\ h.row.created_at = SentTo(ws).createdAt

\* In this step the frame from ws was rejected with the error `Is`, sent to
\* ws alone, and it was neither relayed nor stored.
RejectedWith(ws, Is(_)) ==
    /\ OneFrameTo(ws) /\ Is(SentTo(ws))
    /\ \A c \in DOMAIN outbox : c # ws => NothingSentTo(c)
    /\ pending' = pending
    /\ messages' = messages

RateLimitedStep(ws) == OneFrameTo(ws) /\ IsRateLimitError(SentTo(ws))

-----------------------------------------------------------------------------
\* C1 (as amended): in one room, a well-formed frame that is not rate limited
\* and carries display name n with fingerprint f is accepted and binds n to f
\* when n is unclaimed, is rejected with a name-taken error sent to its
\* sender when n is bound to another fingerprint, and is accepted when n is
\* bound to f, however many frames came before.
C1_NameClaimArbitration ==
    [][\A ws \in DOMAIN sockets, data \in LedgerFrames :
         (/\ HandleMessage(ws, data)
          /\ WellFormed(data) /\ ClaimsName(data)
          /\ ~RateLimitedStep(ws))
         => LET owners == Owners(data.senderName)
            IN /\ owners = {} =>
                     /\ Accepted(ws, data)
                     /\ ClaimRows(name_claims', data.senderName) # {}
                     /\ \A r \in ClaimRows(name_claims', data.senderName) :
                            r.key_fingerprint = data.keyFingerprint
               /\ (owners # {} /\ data.keyFingerprint \notin owners) =>
                     /\ RejectedWith(ws, IsNameTaken)
                     /\ name_claims' = name_claims
               /\ data.keyFingerprint \in owners =>
                     /\ Accepted(ws, data)
                     /\ name_claims' = name_claims
      ]_vars

\* C1 as stated: every later frame carrying n with a fingerprint other than
\* the owner's is answered with the name-taken error, whatever else holds of it.
C1_AsStated ==
    [][\A ws \in DOMAIN sockets, data \in LedgerFrames :
         (/\ HandleMessage(ws, data)
          /\ ClaimsName(data)
          /\ Owners(data.senderName) # {}
          /\ data.keyFingerprint \notin Owners(data.senderName))
         => RejectedWith(ws, IsNameTaken)
      ]_vars

\* A name was claimed, a frame under another fingerprint was answered
\* name-taken, and two frames of the name were relayed.
C1_Witness ==
    /\ nEvents = 3
    /\ \E r \in name_claims : r.display_name = "ann" /\ r.key_fingerprint = "f1"
    /\ \E ws \in DOMAIN outbox :
           /\ Len(outbox[ws]) = 3
           /\ outbox[ws][1].type = "message" /\ outbox[ws][1].senderName = "ann"
           /\ IsNameTaken(outbox[ws][2])
           /\ outbox[ws][3].type = "message" /\ outbox[ws][3].senderName = "ann"

-----------------------------------------------------------------------------
\* C2: the ledger holds at most one fingerprint for a display name, and no
\* step of the coordinator (connect, message, close, error, a completed
\* insert) removes an entry or changes its fingerprint.
C2_LedgerStable ==
    [][/\ \A r \in name_claims : r \in name_claims'
       /\ \A r1, r2 \in name_claims' :
              r1.display_name = r2.display_name
                  => r1.key_fingerprint = r2.key_fingerprint
      ]_vars

\* A name is claimed, a frame under another fingerprint was turned down, and
\* a session has gone through its error and close events since.
C2_Witness ==
    /\ \E r \in name_claims : r.display_name = "ann"
    /\ \E ws \in DOMAIN outbox :
           \E i \in DOMAIN outbox[ws] : IsNameTaken(outbox[ws][i])
    /\ \E ws \in DOMAIN sockets : sockets[ws].phase = "closed"
    /\ \E ws \in DOMAIN sockets : sockets[ws].phase = "errored"

-----------------------------------------------------------------------------
\* C3: while the handler of a frame that carries a display name is suspended
\* at its insert, a well-formed, not rate-limited frame from another
\* connection that claims the same name under a fingerprint other than the
\* recorded one is rejected with name-taken, and the ledger keeps exactly the
\* one claim recorded first: no handler runs between a check and its insert.
C3_ClaimRace ==
    [][\A ws \in DOMAIN sockets, data \in LedgerFrames :
         (/\ HandleMessage(ws, data)
          /\ WellFormed(data) /\ ClaimsName(data)
          /\ ~RateLimitedStep(ws)
          /\ \E h \in pending :
                 h.ws # ws /\ h.row.sender_name = data.senderName)
         => /\ Cardinality(ClaimRows(name_claims', data.senderName)) = 1
            /\ Owners(data.senderName) # {} => name_claims' = name_claims
            /\ (Owners(data.senderName) # {}
                   /\ data.keyFingerprint \notin Owners(data.senderName))
                  => RejectedWith(ws, IsNameTaken)
            /\ Owners(data.senderName) = {} => Accepted(ws, data)
      ]_vars

\* Two frames arrived, on two connections: the first claimed the name and its
\* handler is still suspended; the second was answered name-taken.
C3_Witness ==
    /\ nEvents = 2
    /\ \E h \in pending :
           /\ h.n = 1 /\ h.row.sender_name = "ann"
           /\ \E ws \in DOMAIN outbox :
                  /\ ws # h.ws
                  /\ Len(outbox[ws]) = 2
                  /\ IsNameTaken(outbox[ws][2])
    /\ Cardinality(name_claims) = 1

-----------------------------------------------------------------------------
\* C10: the close and the error listener leave the ledger as it is, and once
\* every session that could have claimed a name has disconnected, a
\* well-formed, not rate-limited frame of a new session under that name is
\* rejected with name-taken when it carries another fingerprint and accepted
\* when it carries the owning one.
C10_ClaimsOutliveSessions ==
    [][/\ \A ws \in DOMAIN sockets :
              (CloseEvent(ws) \/ ErrorEvent(ws)) => name_claims' = name_claims
       /\ \A ws \in DOMAIN sockets, data \in LedgerFrames :
              (/\ HandleMessage(ws, data)
               /\ WellFormed(data) /\ ClaimsName(data)
               /\ ~RateLimitedStep(ws)
               /\ Owners(data.senderName) # {}
               /\ outbox[ws] = <<>>
               /\ \A w \in DOMAIN sockets \ {ws} :
                      sockets[w].phase \in {"errored", "closed"})
              => /\ data.keyFingerprint \notin Owners(data.senderName)
                     => RejectedWith(ws, IsNameTaken)
                 /\ data.keyFingerprint \in Owners(data.senderName)
                     => Accepted(ws, data)
                 /\ name_claims' = name_claims
      ]_vars

\* The session that claimed the name is closed; a later session was answered
\* name-taken for its first frame and had its second frame relayed.
C10_Witness ==
    /\ Len(sockets) = 2
    /\ sockets[1].phase = "closed"
    /\ Len(outbox[1]) = 1 /\ outbox[1][1].type = "message"
    /\ outbox[1][1].senderName = "ann"
    /\ Len(outbox[2]) = 2
    /\ IsNameTaken(outbox[2][1])
    /\ outbox[2][2].type = "message" /\ outbox[2][2].senderName = "ann"
    /\ \E r \in name_claims : r.display_name = "ann"

-----------------------------------------------------------------------------
\* The sessions of the live set that came from `ip`
LiveFrom(ip) == {ws \in connections : sockets[ws].ip = ip}

ConnectionCeiling ==
    OrDefault(env.MAX_CONNECTIONS_PER_IP, DefaultMaxConnectionsPerIp)

\* C4: a connection request is rejected when its address counts
\* ceiling-many connections and admitted otherwise, so that no address ever
\* has more live sessions than the ceiling.
C4_AsStated ==
    \A ip \in Ips : Cardinality(LiveFrom(ip)) <= ConnectionCeiling

-----------------------------------------------------------------------------
\* C5: with the window of 60000 ms and the ceiling of 30, a frame that
\* arrives inside a running window passes the limiter while fewer than 30
\* were counted and is counted, the next one (the 31st) is rejected with the
\* rate-limit error, and a frame arriving when no window runs or the window
\* has elapsed passes and starts a window with count 1.
C5_RateWindow ==
    [][\A ws \in DOMAIN sockets, data \in RateFrames :
         HandleMessage(ws, data)
         => LET ip == sockets[ws].ip
                running == MapHas(rateLimits, ip) /\ now < rateLimits[ip].resetAt
            IN /\ (running /\ rateLimits[ip].count < 30) =>
                      /\ Accepted(ws, data)
                      /\ rateLimits'[ip].count = rateLimits[ip].count + 1
                      /\ rateLimits'[ip].resetAt = rateLimits[ip].resetAt
               /\ (running /\ rateLimits[ip].count >= 30) =>
                      /\ rateLimits[ip].count = 30
                      /\ RejectedWith(ws, IsRateLimitError)
                      /\ rateLimits' = rateLimits
               /\ ~running =>
                      /\ Accepted(ws, data)
                      /\ rateLimits'[ip] = [count |-> 1, resetAt |-> now + 60000]
      ]_vars

\* Thirty frames were relayed in one window, the 31st was answered with the
\* rate-limit error, and the frame sent after the window was relayed and
\* opened a window with count 1.
C5_Witness ==
    /\ Len(sockets) = 1
    /\ Len(outbox[1]) = 32
    /\ \A i \in 1..30 : outbox[1][i].type = "message"
    /\ IsRateLimitError(outbox[1][31])
    /\ outbox[1][32].type = "message"
    /\ rateLimits["ip1"] = [count |-> 1, resetAt |-> 120000]

-----------------------------------------------------------------------------
\* The error a frame fails the admission pipeline with, "" when it passes:
\* the stages in order, as C6 names them.
FirstFailure(ws, data) ==
    LET ip == sockets[ws].ip
    IN IF data.kind = "unparseable" THEN "Invalid message format"
       ELSE IF /\ MapHas(rateLimits, ip) /\ now < rateLimits[ip].resetAt
               /\ rateLimits[ip].count >=
                      OrDefault(env.MAX_MESSAGES_PER_MINUTE, DefaultMaxMessagesPerMinute)
       THEN "Rate limit exceeded"
       ELSE IF data.kind = "null" THEN "Invalid message format"
       ELSE IF data.type # "message" THEN "Invalid message type"
       ELSE IF data.msgId = "" \/ data.ivB64 = "" \/ data.ciphertextB64 = ""
               \/ data.version = NotANumber
       THEN "Missing required fields"
       ELSE IF Len(data.ciphertextB64) >
                   OrDefault(env.MAX_MESSAGE_SIZE, DefaultMaxMessageSize)
       THEN "Message too large"
       ELSE IF ClaimsName(data) /\ Owners(data.senderName) # {}
               /\ data.keyFingerprint \notin Owners(data.senderName)
       THEN "name_taken"
       ELSE ""

-----------------------------------------------------------------------------
\* The live sessions: in the live set, with an open socket.
Live == {c \in connections : sockets[c].phase = "open"}

\* In this step the coordinator accepted a frame from ws: an insert started.
AcceptStep(ws, data) ==
    HandleMessage(ws, data) /\ pending' # pending

-----------------------------------------------------------------------------
\* C8: when the insert of an accepted frame starts, its envelope has been
\* sent and the store is still untouched; when the insert fails, no frame at
\* all is sent (no retraction, no correction, no error to the sender) and
\* what was sent stays sent.
C8_BroadcastBeforePersist ==
    [][/\ \A h \in pending' \ pending :
              /\ messages' = messages
              /\ OneFrameTo(h.ws)
              /\ SentTo(h.ws).type = "message"
              /\ SentTo(h.ws).msgId = h.row.msg_id
              /\ SentTo(h.ws).createdAt = h.row.created_at
       /\ \A h \in pending : PersistFail(h) => outbox' = outbox
       /\ \A c \in DOMAIN outbox :
              /\ Len(outbox'[c]) >= Len(outbox[c])
              /\ SubSeq(outbox'[c], 1, Len(outbox[c])) = outbox[c]
      ]_vars

\* One frame was accepted and relayed to two sessions, its insert failed:
\* nothing is stored, and each session holds the envelope and nothing else.
C8_Witness ==
    /\ nEvents = 1
    /\ pending = {}
    /\ messages = {}
    /\ Len(sockets) = 2
    /\ Len(outbox[1]) = 1 /\ outbox[1][1].type = "message"
    /\ outbox[2] = outbox[1]

-----------------------------------------------------------------------------
\* C9: the message store holds at most one row for a (room, msgId), and a
\* stored row is never changed or removed: the insert of a second
\* submission under a stored msgId fails.
C9_MsgIdUnique ==
    [][/\ \A r \in messages : r \in messages'
       /\ \A r1, r2 \in messages' :
              (r1.room_id = r2.room_id /\ r1.msg_id = r2.msg_id) => r1 = r2
      ]_vars

\* Two submissions under msgId m1 with different sender names were both
\* handled to the end: the store holds the row of one of them only.
C9_Witness ==
    /\ nEvents = 2
    /\ pending = {}
    /\ Cardinality(messages) = 1
    /\ \E ws \in DOMAIN outbox :
           /\ Len(outbox[ws]) = 2
           /\ outbox[ws][1].type = "message" /\ outbox[ws][1].msgId = "m1"
           /\ outbox[ws][2].type = "message" /\ outbox[ws][2].msgId = "m1"
           /\ outbox[ws][1].senderName # outbox[ws][2].senderName
           /\ \E r \in messages :
                  r.msg_id = "m1" /\ r.sender_name = outbox[ws][1].senderName

-----------------------------------------------------------------------------
\* The session has been answered with a rate-limit error before.
WasRateLimited(c) ==
    \E i \in DOMAIN outbox[c] : IsRateLimitError(outbox[c][i])

\* C11: a rate-limit rejection touches neither the live set, nor the
\* connection counters, nor the socket; a session that was rate limited
\* is still sent the envelope of every frame accepted while it is live; and
\* the frame it sends once the window of its address has elapsed is accepted.
C11_RateLimitIsTransient ==
    [][\A ws \in DOMAIN sockets, data \in RateFrames :
         /\ (HandleMessage(ws, data) /\ RateLimitedStep(ws))
                => /\ ws \in connections'
                   /\ connections' = connections
                   /\ connectionsByIp' = connectionsByIp
                   /\ sockets' = sockets
                   /\ rateLimits' = rateLimits
         /\ AcceptStep(ws, data)
                => \A c \in Live :
                       WasRateLimited(c)
                           => OneFrameTo(c) /\ IsEnvelopeOf(SentTo(c), data)
         /\ (/\ HandleMessage(ws, data)
             /\ WasRateLimited(ws)
             /\ now >= rateLimits[sockets[ws].ip].resetAt)
                => Accepted(ws, data)
      ]_vars

\* Session 1 had two frames relayed and a third turned down by the limiter;
\* it then received the envelope of the one frame session 2 (another
\* address) sent, and after the window its own next frame was relayed.  It is
\* in the live set all along and its address still counts one connection.
C11_Witness ==
    /\ Len(sockets) = 2
    /\ sockets[1].ip = "ip1" /\ sockets[2].ip = "ip2"
    /\ connections = {1, 2}
    /\ connectionsByIp["ip1"] = 1
    /\ Len(outbox[1]) = 5
    /\ outbox[1][1].type = "message" /\ outbox[1][2].type = "message"
    /\ IsRateLimitError(outbox[1][3])
    /\ outbox[1][4].type = "message" /\ outbox[1][5].type = "message"
    /\ outbox[1][4].createdAt = ToISOString(0)
    /\ outbox[1][5].createdAt = ToISOString(WindowMs)
    /\ rateLimits["ip2"].count = 1
    /\ rateLimits["ip1"] = [count |-> 1, resetAt |-> 2 * WindowMs]

-----------------------------------------------------------------------------
\* The payload carries a signature and a sender key, and the signature is
\* that of the sender key over the payload's fields and the msgId.
ValidlySigned(msg) ==
    LET p == msg.payload
    IN /\ p.signatureB64 # NoSignature /\ p.senderPublicKeyJwk # NoJwk
       /\ ~importPublicKeyJwk(p.senderPublicKeyJwk).throws
       /\ p.signatureB64 =
              signMessage(p.senderPublicKeyJwk, p.text, p.displayName,
                          p.clientTs, msg.msgId)

\* Two JWKs of the same public key
SameKey(a, b) == <<a.kty, a.crv, a.x, a.y>> = <<b.kty, b.crv, b.x, b.y>>

\* In this step call n returned `status`.
Returned(n, status) ==
    /\ Len(verdicts') = Len(verdicts) + 1
    /\ SubSeq(verdicts', 1, Len(verdicts)) = verdicts
    /\ verdicts'[Len(verdicts')].n = n
    /\ verdicts'[Len(verdicts')].status = status

-----------------------------------------------------------------------------
\* C13: an entry of the trust table is written only when none exists for its
\* (room, displayName), and an entry, once written, is never overwritten or
\* removed.
C13_AsStated ==
    [][\A id \in DOMAIN trustedKeys :
           /\ id \in DOMAIN trustedKeys'
           /\ trustedKeys'[id] = trustedKeys[id]
      ]_vars

-----------------------------------------------------------------------------
\* The validly signed messages under the display name of call n that were
\* classified before it
EarlierSigned(i) ==
    {j \in 1..(i - 1) :
        /\ ValidlySigned(verdicts[j].msg)
        /\ verdicts[j].msg.payload.displayName =
               verdicts[i].msg.payload.displayName}

Minimum(S) == CHOOSE x \in S : \A y \in S : x <= y

-----------------------------------------------------------------------------
-----------------------------------------------------------------------------
\* C16: decryptPayload, called with the key of the encryption and with a
\* room, a version or a msgId other than the one encryptPayload was called
\* with, throws.
C16_AADBinding ==
    (/\ crypto.stage = "opened"
     /\ crypto.with.key = crypto.key
     /\ \/ crypto.with.roomId # crypto.roomId
        \/ crypto.with.version # crypto.version
        \/ crypto.with.msgId # crypto.msgId)
    => crypto.opened.throws

\* A ciphertext sealed for (kitchen, 1, ABC123) was presented with the right
\* key, the right room and version, and another msgId: decryption threw.
C16_Witness ==
    /\ crypto.stage = "opened"
    /\ crypto.with.key = crypto.key
    /\ crypto.roomId = RoomIdOfUrl /\ crypto.version = 1 /\ crypto.msgId = "ABC123"
    /\ crypto.with.roomId = RoomIdOfUrl /\ crypto.with.version = 1
    /\ crypto.with.msgId = "ABC124"
    /\ crypto.opened.throws

-----------------------------------------------------------------------------
\* The frame of an entry a page shows
FrameOf(entry) == CHOOSE f \in authored : f.msgId = entry.msgId

\* C17: a page whose key was derived from the room's salt and iteration
\* count at one epoch shows every message of another author that was sent
\* under an earlier epoch as undecryptable, although all pages hold the same
\* passphrase.
C17_OldEpochUndecryptable ==
    \A c \in DOMAIN clients :
        \A i \in DOMAIN clients[c].messages :
            LET entry == clients[c].messages[i]
            IN (~entry.isOwn /\ FrameOf(entry).version < clients[c].room.version)
               => /\ entry.error
                  /\ entry.text = "[Unable to decrypt]"

\* Page 1 opened the room at epoch 1 and sent a message; page 2 opened it
\* after the rotation to epoch 2, with the same passphrase, sent a message
\* of its own and was shown the message of page 1 as undecryptable.
C17_Witness ==
    /\ Len(clients) = 2
    /\ clients[1].passphrase = clients[2].passphrase
    /\ clients[1].room.version = 1 /\ clients[2].room.version = 2
    /\ Len(clients[1].messages) = 1 /\ clients[1].messages[1].isOwn
    /\ Len(clients[2].messages) = 2
    /\ clients[2].messages[1].isOwn
    /\ clients[2].messages[2].msgId = clients[1].messages[1].msgId
    /\ clients[2].messages[2].error
    /\ clients[2].messages[2].text = "[Unable to decrypt]"

-----------------------------------------------------------------------------
\* C18: a room is created at epoch 1, and no step of a create, rotate or
\* update-title request ever lowers the stored epoch of a room.
C18_AsStated ==
    [][\A room \in DOMAIN rooms :
           /\ room \in DOMAIN rooms'
           /\ rooms'[room].version >= rooms[room].version
      ]_vars

-----------------------------------------------------------------------------
-----------------------------------------------------------------------------
\* The characters of a string
CharsOf(str) == {SubSeq(str, i, i) : i \in 1..Len(str)}

\* /^[a-zA-Z0-9_-]+$/.test(msgId) && msgId.length <= 64
ValidMsgId(msgId) ==
    /\ msgId # ""
    /\ CharsOf(msgId) \subseteq
           CharsOf("abcdefghijklmnopqrstuvwxyzABCDEFGHIJKLMNOPQRSTUVWXYZ0123456789_-")
    /\ Len(msgId) <= 64

\* isValidBase64
isValidBase64(str) ==
    /\ str # "" /\ Len(str) <= 100000
    /\ CharsOf(str) \subseteq
           CharsOf("ABCDEFGHIJKLMNOPQRSTUVWXYZabcdefghijklmnopqrstuvwxyz0123456789+/=")

\* Structural validity of the fields an envelope or a row carries
StructurallyValid(msgId, version, ivB64, ciphertextB64) ==
    /\ ValidMsgId(msgId)
    /\ version # NotANumber
    /\ isValidBase64(ivB64)
    /\ isValidBase64(ciphertextB64)
    /\ Len(ciphertextB64) <= OrDefault(env.MAX_MESSAGE_SIZE, DefaultMaxMessageSize)

\* C20: every envelope that was broadcast and every row that was stored or
\* handed to the store has a msgId of identifier characters and of length at
\* most 64, a numeric version, an iv and a ciphertext in the base64 alphabet,
\* and a ciphertext no longer than the configured cap.
C20_AsStated ==
    /\ \A ws \in DOMAIN outbox :
           \A i \in DOMAIN outbox[ws] :
               outbox[ws][i].type = "message"
               => StructurallyValid(outbox[ws][i].msgId, outbox[ws][i].version,
                                    outbox[ws][i].ivB64,
                                    outbox[ws][i].ciphertextB64)
    /\ \A row \in messages \cup {h.row : h \in pending} :
           StructurallyValid(row.msg_id, row.version, row.iv_b64,
                             row.ciphertext_b64)

-----------------------------------------------------------------------------
(* The Room page's identity (app/src/pages/Room.tsx): the display name,    *)
(* the name prompt, the signing key and the WebSocket.  setState calls     *)
(* take effect at once in `page`; what the last render saw, and what the   *)
(* closures of that render hold, is page.view.  The effects run when React *)
(* commits the next render.  room and cryptoKey are loaded.                *)

MaxPageSends == 3
MaxPageSockets == 2
Names == {"ann", "bob"}

\* computeKeyFingerprint of the key pair kept for a display name
FingerprintOf(name) == "fp:" \o name

RoomState == [displayName |-> page.displayName,
              showNameModal |-> page.showNameModal, error |-> page.error]

\* The page is mounted and loadRoom reads the stored display name.
Mount ==
    /\ ~page.mounted
    /\ page' = [page EXCEPT
           !.mounted = TRUE,
           !.displayName = page.localStorage,
           !.showNameModal = (page.localStorage = ""),
           !.view = [displayName |-> "", showNameModal |-> FALSE, error |-> ""]]
    /\ UNCHANGED <<coordinatorVars, workerVars, appVars, sessionsVars>>

\* navigate('/'): the page is unmounted, the WebSocket effect is cleaned up,
\* and the state and the refs of the component are gone.
Leave ==
    /\ page.mounted
    /\ page' = [page EXCEPT
           !.mounted = FALSE, !.displayName = "", !.showNameModal = FALSE,
           !.error = "", !.signingActive = FALSE, !.signingKeyRef = "",
           !.wsRef = 0, !.keypairs = {}, !.sends = {},
           !.view = [displayName |-> "", showNameModal |-> FALSE, error |-> ""]]
    /\ UNCHANGED <<coordinatorVars, workerVars, appVars, sessionsVars>>

\* React commits a render: the closures see the new state, and the two
\* effects on [displayName, showNameModal] are cleaned up and run again.
Commit ==
    LET depsChanged == \/ page.view.displayName # page.displayName
                       \/ page.view.showNameModal # page.showNameModal
        guard == page.displayName # "" /\ ~page.showNameModal
    IN /\ page.mounted
       /\ page.view # RoomState
       /\ depsChanged /\ guard => page.nWs < MaxPageSockets
       /\ page' = [page EXCEPT
              !.view = RoomState,
              !.wsRef = IF ~depsChanged THEN @
                        ELSE IF guard THEN page.nWs + 1 ELSE 0,
              !.nWs = IF depsChanged /\ guard THEN @ + 1 ELSE @,
              !.keypairs = IF depsChanged /\ guard
                           THEN @ \cup {page.displayName} ELSE @]
       /\ UNCHANGED <<coordinatorVars, workerVars, appVars, sessionsVars>>

\* initKeypair finishes for `name`
InitKeypair(name) ==
    /\ name \in page.keypairs
    /\ page' = [page EXCEPT
           !.keypairs = @ \ {name},
           !.signingKeyRef = FingerprintOf(name),
           !.signingActive = TRUE]
    /\ UNCHANGED <<coordinatorVars, workerVars, appVars, sessionsVars>>

\* The render shows the room (and the prompt over it) unless error is set.
RoomShown == page.mounted /\ page.view.error = ""
PromptShown == RoomShown /\ page.view.showNameModal

\* The input of the prompt: onChange={(e) => setDisplayName(e.target.value)}
TypeName(name) ==
    /\ PromptShown
    /\ page' = [page EXCEPT !.displayName = name]
    /\ UNCHANGED <<coordinatorVars, workerVars, appVars, sessionsVars>>

handleSetDisplayName ==
    LET name == page.view.displayName
    IN /\ PromptShown
       /\ name # ""
       /\ page' = [page EXCEPT
              !.localStorage = name, !.displayName = name,
              !.showNameModal = FALSE]
       /\ UNCHANGED <<coordinatorVars, workerVars, appVars, sessionsVars>>

\* sendMessage up to its first await: signMessage when a key is held,
\* encryptPayload otherwise.
SendMessageStart ==
    /\ RoomShown
    /\ page.wsRef # 0
    /\ page.nSends < MaxPageSends
    /\ page' = [page EXCEPT
           !.nSends = @ + 1,
           !.sends = @ \cup
               {[n |-> page.nSends + 1, displayName |-> page.view.displayName,
                 pc |-> IF page.signingKeyRef # "" THEN "signMessage"
                        ELSE "encryptPayload"]}]
    /\ UNCHANGED <<coordinatorVars, workerVars, appVars, sessionsVars>>

\* signMessage returned: signingKeyRef.current.publicKeyJwk is read, outside
\* the try block, and encryptPayload is awaited.
SendMessageSigned(c) ==
    /\ c.pc = "signMessage"
    /\ page' = [page EXCEPT
           !.sends = IF page.signingKeyRef = "" THEN @ \ {c}
                     ELSE (@ \ {c}) \cup {[c EXCEPT !.pc = "encryptPayload"]}]
    /\ UNCHANGED <<coordinatorVars, workerVars, appVars, sessionsVars>>

\* encryptPayload returned: wsRef.current.send(...), inside the try block
SendMessageSend(c) ==
    /\ c.pc = "encryptPayload"
    /\ page' = [page EXCEPT
           !.sends = @ \ {c},
           !.wire = IF page.wsRef = 0 THEN @
                    ELSE Append(@, [ws |-> page.wsRef, msgId |-> c.n,
                                    senderName |-> c.displayName,
                                    keyFingerprint |-> page.signingKeyRef])]
    /\ UNCHANGED <<coordinatorVars, workerVars, appVars, sessionsVars>>

\* ws.onmessage with an error frame whose code is 'name_taken', the answer
\* to a frame this socket sent with a key fingerprint
OnNameTaken ==
    /\ page.mounted
    /\ page.wsRef # 0
    /\ \E i \in DOMAIN page.wire :
           page.wire[i].ws = page.wsRef /\ page.wire[i].keyFingerprint # ""
    /\ page' = [page EXCEPT
           !.error = "claimed", !.localStorage = "", !.displayName = "",
           !.signingActive = FALSE, !.signingKeyRef = "",
           !.showNameModal = TRUE]
    /\ UNCHANGED <<coordinatorVars, workerVars, appVars, sessionsVars>>

NextPage ==
    \/ Mount
    \/ Leave
    \/ Commit
    \/ \E name \in Names : InitKeypair(name)
    \/ \E name \in Names : TypeName(name)
    \/ handleSetDisplayName
    \/ SendMessageStart
    \/ \E c \in page.sends : SendMessageSigned(c)
    \/ \E c \in page.sends : SendMessageSend(c)
    \/ OnNameTaken

SpecPage == Init /\ [][NextPage]_vars

-----------------------------------------------------------------------------
(* C21 *)

\* The client holds a rejected name from the name-taken frame until a
\* display name is submitted again: the prompt flag stays set that long.
AwaitingName == page.mounted /\ page.showNameModal

\* C21: on a name-taken error frame the stored display name is removed, the
\* in-memory display name and the signing key are cleared, the next render
\* shows the name prompt, and no frame is sent until a display name has
\* been submitted again.
C21_AsStated ==
    [][ /\ OnNameTaken =>
               /\ page'.localStorage = ""
               /\ page'.displayName = ""
               /\ page'.signingKeyRef = ""
               /\ page'.showNameModal
        /\ (AwaitingName /\ Commit) => PromptShown'
        /\ (AwaitingName /\ AwaitingName') => page'.wire = page.wire ]_vars

-----------------------------------------------------------------------------
(* SpecDrop: a broadcast among sessions of which some have a socket whose  *)
(* send throws.                                                            *)

MaxDropSockets == 3
MaxDropMsgs == 2

NextDrop ==
    \/ Fetch("ip1", "websocket") /\ Len(sockets') <= MaxDropSockets
    \/ \E ws \in DOMAIN sockets : SocketBreaks(ws)
    \/ \E ws \in DOMAIN sockets, data \in CastFrames :
           /\ nEvents < MaxDropMsgs
           /\ HandleMessage(ws, data)
           /\ Cardinality(pending') <= MaxPending
    \/ \E h \in pending : PersistOk(h)
    \/ \E h \in pending : PersistFail(h)

SpecDrop == Init /\ [][NextDrop]_vars

\* C22: when the send of a broadcast to one session fails, every other live
\* session still receives the envelope, the insert is still started, and
\* the sender is sent no error frame.
C22_AsStated ==
    [][\A ws \in DOMAIN sockets, data \in CastFrames :
         (/\ HandleMessage(ws, data)
          /\ WellFormed(data) /\ ~RateLimitedStep(ws)
          /\ \E c \in connections : Throws(c))
         => /\ \A c \in Live : OneFrameTo(c) /\ IsEnvelopeOf(SentTo(c), data)
            /\ \E h \in pending' \ pending : h.ws = ws /\ h.row.msg_id = data.msgId
            /\ \A i \in DOMAIN outbox'[ws] : outbox'[ws][i].type # "error"
      ]_vars

-----------------------------------------------------------------------------
(* SpecGone: sessions of one address come, up to the ceiling, and go by a  *)
(* close or an error event, while frames are relayed.                      *)

MaxGoneSockets == 4
MaxGoneMsgs == 2

NextGone ==
    \/ Fetch("ip1", "websocket") /\ Len(sockets') <= MaxGoneSockets
    \/ \E ws \in DOMAIN sockets : ErrorEvent(ws)
    \/ \E ws \in DOMAIN sockets : CloseEvent(ws)
    \/ \E ws \in DOMAIN sockets, data \in RateFrames :
           /\ nEvents < MaxGoneMsgs
           /\ HandleMessage(ws, data)
           /\ Cardinality(pending') <= 1
    \/ \E h \in pending : PersistOk(h)
    \/ \E h \in pending : PersistFail(h)

SpecGone == Init /\ [][NextGone]_vars

\* fetch admits a connection request from ip: its counter is below the ceiling.
Admits(ip) ==
    (IF MapHas(connectionsByIp, ip) THEN connectionsByIp[ip] ELSE 0)
        < OrDefault(env.MAX_CONNECTIONS_PER_IP, DefaultMaxConnectionsPerIp)

\* The socket has had its close or its error event.
Gone(ws) == sockets[ws].phase \in {"errored", "closed"}

\* C23: a close or error event takes the session out of the live set and
\* releases its slot (an address that was at the ceiling is admitted again),
\* and nothing is sent to the session from then on.
C23_ReleasedOnClose ==
    [][\A ws \in DOMAIN sockets :
         /\ (CloseEvent(ws) \/ ErrorEvent(ws))
                => /\ ws \notin connections'
                   /\ Admits(sockets[ws].ip)'
         /\ Gone(ws) => /\ ws \notin connections
                        /\ ws \notin connections'
                        /\ NothingSentTo(ws)
      ]_vars

\* The address was at the ceiling of three; session 1 closed, a fourth
\* connection was admitted, and a frame relayed after that reached sessions
\* 2, 3 and 4 and not session 1.
C23_Witness ==
    /\ Len(sockets) = 4
    /\ sockets[1].phase = "closed"
    /\ connections = {2, 3, 4}
    /\ connectionsByIp["ip1"] = CfgMaxConnections
    /\ outbox[1] = <<>>
    /\ \A c \in {2, 3, 4} : Len(outbox[c]) = 1 /\ outbox[c][1].type = "message"

-----------------------------------------------------------------------------
\* The ledger lets the frame's name claim pass.
ClaimPasses(data) ==
    ClaimsName(data) =>
        Owners(data.senderName) = {} \/ data.keyFingerprint \in Owners(data.senderName)

\* C24: a connection request rejected for capacity (status 429) registers no
\* session and leaves the live set, the connection counters, the rate-limit
\* entries, the sockets and everything sent or stored as they were; the
\* sessions of the address stay live, and a frame one of them sends after
\* the rejection is relayed to all of them as before.
C24_RejectionChangesNothing ==
    [][/\ (response # 429 /\ response' = 429)
              => UNCHANGED <<env, connections, connectionsByIp, rateLimits,
                             initialized, roomId, name_claims, messages,
                             sockets, outbox, pending, now, nEvents>>
       /\ response = 429
              => \A ws \in DOMAIN sockets, data \in WireFrames :
                     (/\ HandleMessage(ws, data)
                      /\ WellFormed(data) /\ ClaimPasses(data)
                      /\ ~RateLimitedStep(ws))
                     => /\ Accepted(ws, data)
                        /\ \A c \in LiveFrom(sockets[ws].ip) :
                               OneFrameTo(c) /\ IsEnvelopeOf(SentTo(c), data)
      ]_vars

\* The address holds three sessions, the ceiling; its last request was
\* rejected; the three sessions are live and each has received an envelope.
C24_Witness ==
    /\ response = 429
    /\ connections = {1, 2, 3}
    /\ connectionsByIp["ip1"] = CfgMaxConnections
    /\ \A c \in connections :
           /\ sockets[c].phase = "open"
           /\ Len(outbox[c]) >= 1 /\ outbox[c][Len(outbox[c])].type = "message"

-----------------------------------------------------------------------------
\* C25: after any sequence of connect, close and error events, each
\* address's connection counter equals the number of its sessions in the
\* live set, and an address with no live session has no counter entry.
C25_AsStated ==
    \A ip \in Ips :
        IF LiveFrom(ip) = {}
        THEN ~MapHas(connectionsByIp, ip)
        ELSE /\ MapHas(connectionsByIp, ip)
             /\ connectionsByIp[ip] = Cardinality(LiveFrom(ip))

-----------------------------------------------------------------------------
(* SpecShare: sessions of one or two addresses under a ceiling of          *)
(* CfgMaxMessages frames a window, the clock moving in half windows.       *)

MaxShareTicks == 3

NextShare ==
    \/ \E ip \in Ips :
           Fetch(ip, "websocket") /\ Len(sockets') <= MaxSockets
    \/ \E ws \in DOMAIN sockets, data \in RateFrames :
           /\ nEvents < MaxLimitMsgs
           /\ HandleMessage(ws, data)
           /\ Cardinality(pending') <= 1
    \/ \E h \in pending : PersistOk(h)
    \/ \E h \in pending : PersistFail(h)
    \/ now < MaxShareTicks * RateTickMs /\ Advance(RateTickMs)

SpecShare == Init /\ [][NextShare]_vars

MessageCeiling ==
    OrDefault(env.MAX_MESSAGES_PER_MINUTE, DefaultMaxMessagesPerMinute)

\* C26: every rate-limit entry counts between 1 and the ceiling; a rejected
\* frame changes no entry; a frame counted in a running window adds one to
\* the count and leaves the window's end where it was; a frame changes no
\* entry but that of its sender's address; and the entry is the address's,
\* whichever of its connections sent the frame.
C26_LimiterEntries ==
    [][/\ DOMAIN rateLimits' \subseteq Ips
       /\ \A ip \in DOMAIN rateLimits' :
              rateLimits'[ip].count \in 1..MessageCeiling
       /\ \A ws \in DOMAIN sockets, data \in RateFrames :
              HandleMessage(ws, data)
              => LET ip == sockets[ws].ip
                     running == MapHas(rateLimits, ip) /\ now < rateLimits[ip].resetAt
                 IN /\ RateLimitedStep(ws) => rateLimits' = rateLimits
                    /\ (running /\ ~RateLimitedStep(ws))
                           => rateLimits'[ip] =
                                  [count |-> rateLimits[ip].count + 1,
                                   resetAt |-> rateLimits[ip].resetAt]
                    /\ \A other \in Ips \ {ip} :
                           /\ MapHas(rateLimits', other) = MapHas(rateLimits, other)
                           /\ MapHas(rateLimits, other)
                                  => rateLimits'[other] = rateLimits[other]
      ]_vars

\* Two connections of one address under a ceiling of two: session 1 sent a
\* frame at time 0, session 2 sent the second one half a window later (its
\* insert is still awaited) and the window still ends at 60000; the next
\* frame of session 1 was turned down: the count of 2 is shared.
C26_Witness ==
    /\ Len(sockets) = 2
    /\ sockets[1].ip = "ip1" /\ sockets[2].ip = "ip1"
    /\ now = RateTickMs
    /\ rateLimits = [ip \in {"ip1"} |-> [count |-> CfgMaxMessages, resetAt |-> WindowMs]]
    /\ \E h \in pending :
           h.ws = 2 /\ h.n = 2 /\ h.row.created_at = ToISOString(RateTickMs)
    /\ Len(outbox[1]) = 3 /\ IsRateLimitError(outbox[1][3])
    /\ Len(outbox[2]) = 2 /\ outbox[2][2].type = "message"

-----------------------------------------------------------------------------
(* checkRateLimit, the limiter of the sessions revision: [ok, limits]      *)

checkRateLimit(limits, clientIp, t) ==
    IF ~MapHas(limits, clientIp) \/ t > limits[clientIp].resetAt
    THEN [ok |-> TRUE,
          limits |-> MapSet(limits, clientIp,
                            [count |-> 1, resetAt |-> t + RATE_LIMIT_WINDOW_MS])]
    ELSE IF limits[clientIp].count >= MAX_MESSAGES_PER_MINUTE
    THEN [ok |-> FALSE, limits |-> limits]
    ELSE [ok |-> TRUE, limits |-> [limits EXCEPT ![clientIp].count = @ + 1]]

(* SpecWindow: the same arrivals are put to the inline limiter of          *)
(* handleMessage (on rateLimits) and to checkRateLimit (on                 *)
(* messageRateLimits), both with the ceiling of 30 and the window of       *)
(* 60000 ms.                                                               *)

MaxWindowTicks == 4

\* A frame of clientIp arrives now.
Arrive(clientIp) ==
    /\ rateLimits' = RateLimitInline(rateLimits, clientIp, now, MessageCeiling).limits
    /\ messageRateLimits' = checkRateLimit(messageRateLimits, clientIp, now).limits
    /\ UNCHANGED <<env, connections, connectionsByIp, initialized, roomId,
                   name_claims, messages, sockets, outbox, pending, now, nEvents,
                   response, workerVars, appVars, sessions, ipConnectionCounts,
                   pageVars>>

NextWindow ==
    \/ \E clientIp \in {"ip1"} : Arrive(clientIp)
    \/ now < MaxWindowTicks * RateTickMs /\ Advance(RateTickMs)

SpecWindow == InitDefault /\ [][NextWindow]_vars

\* C27: a frame arriving at or after the end of its address's window (the
\* end itself included) starts a new window with count 1, one arriving
\* before the end is counted in the running window, and the inline limiter
\* and checkRateLimit decide alike on every arrival of every sequence.
C27_AsStated ==
    [][\A clientIp \in {"ip1"} :
         Arrive(clientIp)
         => /\ MapHas(rateLimits, clientIp) =>
                   IF now >= rateLimits[clientIp].resetAt
                   THEN rateLimits'[clientIp] =
                            [count |-> 1, resetAt |-> now + WindowMs]
                   ELSE rateLimits'[clientIp].resetAt = rateLimits[clientIp].resetAt
            /\ RateLimitInline(rateLimits, clientIp, now, MessageCeiling).ok
                   = checkRateLimit(messageRateLimits, clientIp, now).ok
      ]_vars

-----------------------------------------------------------------------------
(* The persist-before-broadcast revisions of the coordinator.              *)
(*                                                                         *)
(* The second revision (durable-object.ts, lines 253-442) has the fields,  *)
(* fetch and the listeners of the current one, and no name claims: its     *)
(* sessions connect and close through Fetch and CloseEvent.  Its           *)
(* handleMessage awaits getRoomId (which returns at once) and the insert,  *)
(* and broadcasts afterwards.                                              *)

HandleMessageStored(ws, data) ==
    /\ sockets[ws].phase = "open"
    /\ LET ip == sockets[ws].ip
           rl == RateLimitInline(rateLimits, ip, now,
                     OrDefault(env.MAX_MESSAGES_PER_MINUTE, DefaultMaxMessagesPerMinute))
           maxMessageSize == OrDefault(env.MAX_MESSAGE_SIZE, DefaultMaxMessageSize)
           \* this.ctx.id.name: the Worker names the object after the room
           room == RoomIdOfUrl
           reply == IF data.kind = "unparseable" THEN "Invalid message format"
                    ELSE IF ~rl.ok THEN "Rate limit exceeded"
                    ELSE IF data.kind = "null" THEN "Invalid message format"
                    ELSE IF data.type # "message" THEN "Invalid message type"
                    ELSE IF MissingRequiredFields(data) THEN "Missing required fields"
                    ELSE IF Len(data.ciphertextB64) > maxMessageSize
                    THEN "Message too large"
                    ELSE ""
       IN /\ rateLimits' = IF data.kind = "unparseable" THEN rateLimits ELSE rl.limits
          /\ IF reply # ""
             THEN /\ outbox' = Send(outbox, ws, ErrorFrame(reply))
                  /\ pending' = pending
             ELSE /\ outbox' = outbox
                  /\ pending' = pending \cup
                         {[n |-> nEvents + 1, ws |-> ws, rev |-> "stored",
                           row |-> MessageRow(room, data, ToISOString(now))]}
          /\ nEvents' = nEvents + 1
    /\ UNCHANGED <<env, connections, connectionsByIp, initialized, roomId,
                   name_claims, messages, sockets, now,
                   response, workerVars, appVars, sessionsVars, pageVars>>

\* The insert succeeded: the broadcast loop runs inside the try block, so a
\* send that throws ends the loop and the catch answers the sender.
StoredOk(h) ==
    /\ h.rev = "stored"
    /\ PrimaryKeyFree(messages, h.row)
    /\ messages' = messages \cup {h.row}
    /\ pending' = pending \ {h}
    /\ LET broadcastMsg ==
               [type |-> "message", msgId |-> h.row.msg_id,
                version |-> h.row.version, createdAt |-> h.row.created_at,
                ivB64 |-> h.row.iv_b64, ciphertextB64 |-> h.row.ciphertext_b64,
                senderName |-> h.row.sender_name]
           sent == SendAll(outbox, Reached(BroadcastTargets), broadcastMsg)
       IN outbox' = IF (\E c \in BroadcastTargets : Throws(c))
                       /\ sockets[h.ws].phase = "open"
                    THEN Send(sent, h.ws, ErrorFrame("Failed to store message"))
                    ELSE sent
    /\ UNCHANGED <<env, connections, connectionsByIp, rateLimits, initialized,
                   roomId, name_claims, sockets, now, nEvents,
                   response, workerVars, appVars, sessionsVars, pageVars>>

\* The insert threw (a primary key conflict or any D1 error): the catch
\* answers the sender, when its socket still takes a frame.
StoredFail(h) ==
    /\ h.rev = "stored"
    /\ pending' = pending \ {h}
    /\ outbox' = IF sockets[h.ws].phase = "open"
                 THEN Send(outbox, h.ws, ErrorFrame("Failed to store message"))
                 ELSE outbox
    /\ UNCHANGED <<env, connections, connectionsByIp, rateLimits, initialized,
                   roomId, name_claims, messages, sockets, now, nEvents,
                   response, workerVars, appVars, sessionsVars, pageVars>>

(* The sessions revision (lines 444-652) keeps sessions,                   *)
(* ipConnectionCounts and messageRateLimits, takes its limits from         *)
(* constants, validates msgId and base64, and relays frames of type 'msg'. *)

FetchSessions(clientIp, upgrade) ==
    LET currentConnections ==
            IF MapHas(ipConnectionCounts, clientIp)
            THEN ipConnectionCounts[clientIp] ELSE 0
        server == Len(sockets) + 1
    IN /\ roomId' = RoomIdOfUrl
       /\ IF upgrade # "websocket"
          THEN /\ response' = 426
               /\ UNCHANGED <<sockets, outbox, sessionsVars>>
          ELSE IF currentConnections >= MAX_CONNECTIONS_PER_IP
          THEN /\ response' = 429
               /\ UNCHANGED <<sockets, outbox, sessionsVars>>
          ELSE /\ response' = 101
               /\ sockets' = Append(sockets, [ip |-> clientIp, phase |-> "open"])
               /\ outbox' = Append(outbox, <<>>)
               /\ sessions' = sessions \cup {server}
               /\ ipConnectionCounts' =
                      MapSet(ipConnectionCounts, clientIp, currentConnections + 1)
               /\ UNCHANGED messageRateLimits
       /\ UNCHANGED <<env, connections, connectionsByIp, rateLimits, initialized,
                      name_claims, messages, pending, now, nEvents,
                      workerVars, appVars, pageVars>>

\* The close and the error listener both call handleClose.
handleClose(ws, event) ==
    LET clientIp == sockets[ws].ip
        currentCount == IF MapHas(ipConnectionCounts, clientIp)
                        THEN ipConnectionCounts[clientIp] ELSE 0
    IN /\ ws \in sessions \/ sockets[ws].phase = "errored"
       /\ sockets[ws].phase \in
              (IF event = "error" THEN {"open", "down", "broken"}
               ELSE {"open", "down", "broken", "errored"})
       /\ sockets' = [sockets EXCEPT
              ![ws].phase = IF event = "error" THEN "errored" ELSE "closed"]
       /\ sessions' = sessions \ {ws}
       /\ ipConnectionCounts' =
              IF currentCount <= 1 THEN MapDelete(ipConnectionCounts, clientIp)
              ELSE MapSet(ipConnectionCounts, clientIp, currentCount - 1)
       /\ UNCHANGED <<env, connections, connectionsByIp, rateLimits, initialized,
                      roomId, name_claims, messages, outbox, pending, now,
                      nEvents, response, workerVars, appVars, messageRateLimits,
                      pageVars>>

\* Frames for the sessions revision: two well formed, and one each that is
\* longer than MAX_MESSAGE_SIZE, of the later clients' type, and with a
\* msgId outside the pattern
SessionFrames ==
    { [Frame(m, "", "") EXCEPT !.type = "msg"] : m \in {"m1", "m2"} }
        \cup { [Frame("m1", "", "") EXCEPT !.type = "msg", !.kind = "oversize"],
               Frame("m1", "", ""),
               [Frame("m 1!", "", "") EXCEPT !.type = "msg"] }

HandleMessageSessions(ws, data) ==
    /\ ws \in sessions
    /\ sockets[ws].phase = "open"
    /\ LET clientIp == sockets[ws].ip
           rl == checkRateLimit(messageRateLimits, clientIp, now)
           \* data.length: a frame of kind "oversize" is one character too long
           messageSize == IF data.kind = "oversize" THEN MAX_MESSAGE_SIZE + 1
                          ELSE Len(data.msgId) + Len(data.ivB64)
                                   + Len(data.ciphertextB64)
           reply == IF messageSize > MAX_MESSAGE_SIZE THEN "Message too large"
                    ELSE IF ~rl.ok THEN "Rate limit exceeded"
                    ELSE IF data.kind \in {"unparseable", "null"}
                    THEN "Failed to process message"
                    ELSE IF \/ data.type # "msg" \/ data.msgId = ""
                            \/ data.version \in {NotANumber, 0}
                            \/ data.ivB64 = "" \/ data.ciphertextB64 = ""
                    THEN "Invalid message format"
                    ELSE IF ~ValidMsgId(data.msgId) THEN "Invalid message ID"
                    ELSE IF \/ ~isValidBase64(data.ivB64)
                            \/ ~isValidBase64(data.ciphertextB64)
                    THEN "Invalid base64 encoding"
                    ELSE ""
       IN /\ messageRateLimits' =
                 IF messageSize > MAX_MESSAGE_SIZE THEN messageRateLimits
                 ELSE rl.limits
          /\ IF reply # ""
             THEN /\ outbox' = Send(outbox, ws, [type |-> "error", error |-> reply])
                  /\ pending' = pending
             ELSE /\ outbox' = outbox
                  /\ pending' = pending \cup
                         {[n |-> nEvents + 1, ws |-> ws, rev |-> "sessions",
                           row |-> [room_id |-> roomId, msg_id |-> data.msgId,
                                    version |-> data.version,
                                    created_at |-> ToISOString(now),
                                    iv_b64 |-> data.ivB64,
                                    ciphertext_b64 |-> data.ciphertextB64,
                                    sender_name |-> Null]]}
          /\ nEvents' = nEvents + 1
    /\ UNCHANGED <<env, connections, connectionsByIp, rateLimits, initialized,
                   roomId, name_claims, messages, sockets, now,
                   response, workerVars, appVars, sessions, ipConnectionCounts,
                   pageVars>>

\* The insert succeeded: each session is sent the frame inside a try of its
\* own, so a socket that takes no frame is passed over.
InsertOk(h) ==
    /\ h.rev = "sessions"
    /\ PrimaryKeyFree(messages, h.row)
    /\ messages' = messages \cup {h.row}
    /\ pending' = pending \ {h}
    /\ outbox' = SendAll(outbox, {c \in sessions : sockets[c].phase = "open"},
                         [type |-> "msg", msgId |-> h.row.msg_id,
                          version |-> h.row.version, ivB64 |-> h.row.iv_b64,
                          ciphertextB64 |-> h.row.ciphertext_b64,
                          createdAt |-> h.row.created_at])
    /\ UNCHANGED <<env, connections, connectionsByIp, rateLimits, initialized,
                   roomId, name_claims, sockets, now, nEvents,
                   response, workerVars, appVars, sessionsVars, pageVars>>

\* A catch that relays the message all the same
InsertFail_Relays(h) ==
    /\ h.rev = "sessions"
    /\ pending' = pending \ {h}
    /\ outbox' = SendAll(outbox, {c \in sessions : sockets[c].phase = "open"},
                         [type |-> "msg", msgId |-> h.row.msg_id,
                          version |-> h.row.version, ivB64 |-> h.row.iv_b64,
                          ciphertextB64 |-> h.row.ciphertext_b64,
                          createdAt |-> h.row.created_at])
    /\ UNCHANGED <<env, connections, connectionsByIp, rateLimits, initialized,
                   roomId, name_claims, messages, sockets, now, nEvents,
                   response, workerVars, appVars, sessionsVars, pageVars>>

\* The insert threw: the outer catch answers the sender.
InsertFail(h) ==
    /\ h.rev = "sessions"
    /\ pending' = pending \ {h}
    /\ outbox' = IF sockets[h.ws].phase = "open"
                 THEN Send(outbox, h.ws, [type |-> "error",
                                          error |-> "Failed to process message"])
                 ELSE outbox
    /\ UNCHANGED <<env, connections, connectionsByIp, rateLimits, initialized,
                   roomId, name_claims, messages, sockets, now, nEvents,
                   response, workerVars, appVars, sessionsVars, pageVars>>

(* SpecPersistFirst: a coordinator of each of the two revisions, each with *)
(* its own sessions, both on the same clock and the same messages table.   *)

MaxFirstSockets == 2
MaxFirstMsgs == 2

NextPersistFirst ==
    \/ Fetch("ip1", "websocket") /\ Len(sockets') <= MaxFirstSockets
    \/ \E ws \in connections : CloseEvent(ws)
    \/ \E ws \in connections, data \in CastFrames :
           /\ nEvents < MaxFirstMsgs
           /\ HandleMessageStored(ws, data)
           /\ Cardinality(pending') <= MaxPending
    \/ \E h \in pending : StoredOk(h)
    \/ \E h \in pending : StoredFail(h)
    \/ \E upgrade \in {"websocket", "none"} :
           FetchSessions("ip2", upgrade) /\ Len(sockets') <= MaxFirstSockets
    \/ \E ws \in DOMAIN sockets, event \in {"error", "close"} : handleClose(ws, event)
    \/ \E ws \in sessions, data \in SessionFrames :
           /\ nEvents < MaxFirstMsgs
           /\ HandleMessageSessions(ws, data)
           /\ Cardinality(pending') <= MaxPending
    \/ \E h \in pending : InsertOk(h)
    \/ \E h \in pending : InsertFail(h)
    \/ now < MaxTicks * TickMs /\ Advance(TickMs)

SpecPersistFirst == Init /\ [][NextPersistFirst]_vars

-----------------------------------------------------------------------------
(* C28: delivery in arrival order *)

\* a is an earlier instant than b, both as toISOString gives them
Earlier(a, b) == a[1] < b[1] \/ (a[1] = b[1] /\ a[2] < b[2])

IsRelayed(frame) == frame.type \in {"msg", "message"}

\* C28 as stated: accepted messages are delivered in arrival order.  Every
\* handler stamps createdAt when its frame arrives, so of two relayed
\* messages the one with the earlier createdAt arrived first: no peer is
\* sent a message after one with a later createdAt.
C28_AsStated ==
    \A ws \in DOMAIN outbox : \A i, j \in DOMAIN outbox[ws] :
        (i < j /\ IsRelayed(outbox[ws][i]) /\ IsRelayed(outbox[ws][j]))
            => ~Earlier(outbox[ws][j].createdAt, outbox[ws][i].createdAt)

-----------------------------------------------------------------------------
(* C29: persist before broadcast *)

\* the frames a step sent to ws
NewFrames(ws) ==
    LET before == IF ws \in DOMAIN outbox THEN Len(outbox[ws]) ELSE 0
    IN {outbox'[ws][i] : i \in (before + 1)..Len(outbox'[ws])}

\* the frame relays the row
Relays(frame, row) ==
    /\ IsRelayed(frame)
    /\ frame.msgId = row.msg_id
    /\ frame.createdAt = row.created_at

\* the step ends handler h without a row of its own: its insert failed
InsertFailed(h) ==
    /\ h \in pending \ pending'
    /\ h.row \notin messages' \ messages

FailureFrames ==
    {ErrorFrame("Failed to store message"),
     [type |-> "error", error |-> "Failed to process message"]}

\* C29: in the persist-before-broadcast revisions a message is relayed only
\* by the step in which its insert succeeded, the row being new under the
\* primary key; a step in which an insert fails (a duplicate msgId among
\* the failures) relays nothing to any session and sends the sender, when
\* its socket is still open, one error frame.
C29_BroadcastAfterInsert ==
    [][ /\ \A ws \in DOMAIN outbox' : \A frame \in NewFrames(ws) :
               IsRelayed(frame) =>
                   \E row \in messages' \ messages :
                       Relays(frame, row) /\ PrimaryKeyFree(messages, row)
        /\ \A h \in pending :
               InsertFailed(h) =>
                   /\ \A ws \in DOMAIN outbox' : \A frame \in NewFrames(ws) :
                          ~IsRelayed(frame)
                   /\ sockets[h.ws].phase = "open" =>
                          /\ Len(outbox'[h.ws]) = Len(outbox[h.ws]) + 1
                          /\ NewFrames(h.ws) \subseteq FailureFrames
      ]_vars

\* An insert has failed after one that succeeded: the sender was relayed
\* the first message, whose row is the only one, and was then sent the
\* error frame of the second, which no session was relayed.
C29_Witness ==
    /\ pending = {}
    /\ Cardinality(messages) = 1
    /\ \E ws \in DOMAIN outbox :
           /\ Len(outbox[ws]) = 2
           /\ Relays(outbox[ws][1], CHOOSE row \in messages : TRUE)
           /\ outbox[ws][2] \in FailureFrames

-----------------------------------------------------------------------------
(* C30: envelopes are relayed as submitted *)

\* frame and row carry msgId, version, ivB64 and ciphertextB64 as data
\* submitted them, and one createdAt, the coordinator's clock
SameEnvelope(frame, row, data) ==
    /\ frame.msgId = data.msgId /\ row.msg_id = data.msgId
    /\ frame.version = data.version /\ row.version = data.version
    /\ frame.ivB64 = data.ivB64 /\ row.iv_b64 = data.ivB64
    /\ frame.ciphertextB64 = data.ciphertextB64
    /\ row.ciphertext_b64 = data.ciphertextB64
    /\ frame.createdAt = row.created_at
    /\ row.created_at = ToISOString(now)

\* the row whose insert the step started
StartedRow == (CHOOSE h \in pending' \ pending : TRUE).row

\* C30 as stated: frame and row carry the five fields exactly as submitted,
\* senderName among them, and the same createdAt.
C30_AsStated ==
    [][\A ws \in DOMAIN sockets, data \in CastFrames :
         AcceptStep(ws, data)
         => \A c \in Live :
                /\ SameEnvelope(SentTo(c), StartedRow, data)
                /\ SentTo(c).senderName = data.senderName
                /\ StartedRow.sender_name = data.senderName
      ]_vars

\* C30 (as amended): for every accepted message the broadcast frame and the
\* row put to the insert carry msgId, version, ivB64 and ciphertextB64
\* exactly as submitted and the same server-assigned createdAt; both carry
\* a non-empty senderName as submitted and null in place of an empty or
\* absent one; and the row a successful insert stores is that row.
C30_RelayedUnmodified ==
    [][ /\ \A ws \in DOMAIN sockets, data \in CastFrames :
               AcceptStep(ws, data)
               => \A c \in Live :
                      /\ SameEnvelope(SentTo(c), StartedRow, data)
                      /\ SentTo(c).senderName =
                             (IF data.senderName # "" THEN data.senderName ELSE Null)
                      /\ StartedRow.sender_name = SentTo(c).senderName
        /\ \A h \in pending \ pending' : messages' \ messages \subseteq {h.row}
      ]_vars

\* A named and an unnamed message have both been relayed and stored: the
\* frame of each is in a session's outbox beside its row.
C30_Witness ==
    \E named, unnamed \in messages :
        /\ named.sender_name = "ann" /\ unnamed.sender_name = Null
        /\ \E c \in DOMAIN outbox : \E i, j \in DOMAIN outbox[c] :
               /\ Relays(outbox[c][i], named)
               /\ outbox[c][i].senderName = "ann"
               /\ Relays(outbox[c][j], unnamed)
               /\ outbox[c][j].senderName = Null

-----------------------------------------------------------------------------
(* C31: buildAAD is injective *)

\* the triple the payload was sealed for, and the one it was opened with
SealedFor == <<crypto.roomId, crypto.version, crypto.msgId>>
OpenedWith == <<crypto.with.roomId, crypto.with.version, crypto.with.msgId>>

\* C31: buildAAD is injective on the triples the system admits (a room id
\* as generateRoomId draws it, letters and digits; a version of the rooms
\* table, a positive integer; a msgId of any characters, the delimiter
\* among them): two triples with the same additional data are the same.
C31_AADInjective ==
    crypto.stage = "opened" =>
        (buildAAD(SealedFor[1], SealedFor[2], SealedFor[3])
             = buildAAD(OpenedWith[1], OpenedWith[2], OpenedWith[3])
         => SealedFor = OpenedWith)

\* The additional data of two triples was built that differ in the msgId
\* alone, one msgId holding the delimiter and the other's text after it.
C31_Witness ==
    /\ crypto.stage = "opened"
    /\ SealedFor[1] = OpenedWith[1] /\ SealedFor[2] = OpenedWith[2]
    /\ SealedFor[3] = "1|ABC123" /\ OpenedWith[3] = "ABC123"
    /\ crypto.opened.throws

-----------------------------------------------------------------------------
(* loadHistory and the message listener of the Room page: decryptMessage   *)
(* on every message of the history batch and on every broadcast, each      *)
(* call running to its own end.                                            *)

\* The room has been rotated once, from version 1 to version 2: the key
\* the passphrase gives with the salt of each version
RoomKey(version) ==
    deriveKeyPBKDF2("correct-horse", generateSalt(version), DefaultKdfIters)

\* A message as sendMessage seals it and as the history and the broadcast
\* carry it, signed by the key pair of jwk
Envelope(msgId, key, version, displayName, jwk) ==
    LET payload == [text |-> "hi", displayName |-> displayName, clientTs |-> 1000,
                    signatureB64 |-> signMessage(jwk, "hi", displayName, 1000, msgId),
                    senderPublicKeyJwk |-> jwk]
        sealed == encryptPayload(key, RoomIdOfUrl, version, msgId, payload, "iv-1")
    IN [msgId |-> msgId, version |-> version, ivB64 |-> sealed.ivB64,
        ciphertextB64 |-> sealed.ciphertextB64]

\* The messages a page may meet under one msgId: two of the room's epoch,
\* by different signers of one name, and one of the epoch before
EnvelopesOf(msgId) ==
    { Envelope(msgId, RoomKey(2), 2, "ann", Jwk1),
      Envelope(msgId, RoomKey(2), 2, "ann", Jwk2),
      Envelope(msgId, RoomKey(1), 1, "ann", Jwk2) }

\* loadRoom has set the room and the key and getHistory has answered with
\* two messages; a third will be broadcast.
InitHistory ==
    /\ env = [MAX_CONNECTIONS_PER_IP |-> 0, MAX_MESSAGES_PER_MINUTE |-> 0,
              MAX_MESSAGE_SIZE |-> 0]
    /\ connections = {} /\ connectionsByIp = EmptyMap /\ rateLimits = EmptyMap
    /\ initialized = FALSE /\ roomId = "" /\ name_claims = {} /\ messages = {}
    /\ sockets = <<>> /\ outbox = <<>> /\ pending = {}
    /\ now = 0 /\ nEvents = 0 /\ response = 0
    /\ InitSessions /\ InitPage /\ InitWorker
    /\ trustedKeys = EmptyMap /\ calls = {} /\ verdicts = <<>>
    /\ authored = {} /\ crypto = [stage |-> "idle"]
    /\ \E h1 \in EnvelopesOf("m1"), h2 \in EnvelopesOf("m2") :
           clients = << [passphrase |-> "correct-horse",
                         room |-> [roomId |-> RoomIdOfUrl, title |-> "Soup",
                                   saltB64 |-> generateSalt(2),
                                   kdfIters |-> DefaultKdfIters, version |-> 2],
                         cryptoKey |-> RoomKey(2), messages |-> <<>>,
                         history |-> <<h1, h2>>, loaded |-> FALSE,
                         added |-> {}] >>

\* the call of decryptMessage on the message with this msgId has started
Started(msgId) ==
    \/ \E c \in calls : c.msg.msgId = msgId
    \/ \E i \in DOMAIN verdicts : verdicts[i].msg.msgId = msgId

\* it has returned
Decrypted(msgId) == \E i \in DOMAIN verdicts : verdicts[i].msg.msgId = msgId

\* A decryptMessage whose catch does not flag the entry
Entry_Unflagged(msgId) ==
    LET v == verdicts[CHOOSE i \in DOMAIN verdicts : verdicts[i].msg.msgId = msgId]
    IN IF "error" \in DOMAIN v
       THEN [msgId |-> msgId, text |-> "[Unable to decrypt]", isOwn |-> FALSE,
             error |-> FALSE, trustStatus |-> "unsigned"]
       ELSE [msgId |-> msgId, text |-> v.msg.payload.text, isOwn |-> FALSE,
             error |-> FALSE, trustStatus |-> v.status]

\* the DecryptedMessage it returned
Entry(msgId) ==
    LET v == verdicts[CHOOSE i \in DOMAIN verdicts : verdicts[i].msg.msgId = msgId]
    IN IF "error" \in DOMAIN v
       THEN [msgId |-> msgId, text |-> "[Unable to decrypt]", isOwn |-> FALSE,
             error |-> TRUE, trustStatus |-> "unsigned"]
       ELSE [msgId |-> msgId, text |-> v.msg.payload.text, isOwn |-> FALSE,
             error |-> FALSE, trustStatus |-> v.status]

\* decryptMessage of page c, from its start to its catch or to the first
\* await of verifyAndCheckTrust on shared state
DecryptMessageStart(c, msg) ==
    LET opened == decryptPayload(clients[c].cryptoKey, clients[c].room.roomId,
                                 msg.version, msg.msgId, msg.ivB64,
                                 msg.ciphertextB64)
    IN /\ ~Started(msg.msgId)
       /\ IF opened.throws
          THEN /\ verdicts' = Append(verdicts,
                      [n |-> NextCall, msg |-> [msgId |-> msg.msgId],
                       status |-> "unsigned", error |-> TRUE])
               /\ UNCHANGED <<coordinatorVars, sessionsVars, pageVars, workerVars,
                              trustedKeys, calls, clients, authored, crypto>>
          ELSE VerifyAndCheckTrust([msgId |-> msg.msgId, payload |-> opened.payload],
                                   clients[c].room.roomId)

\* Promise.all has resolved: setMessages(decrypted)
LoadHistoryDone(c) ==
    /\ ~clients[c].loaded
    /\ \A i \in DOMAIN clients[c].history : Decrypted(clients[c].history[i].msgId)
    /\ clients' = [clients EXCEPT
           ![c].messages = [i \in DOMAIN clients[c].history |->
                               Entry(clients[c].history[i].msgId)],
           ![c].loaded = TRUE]
    /\ UNCHANGED <<coordinatorVars, sessionsVars, pageVars, workerVars,
                   trustedKeys, calls, verdicts, authored, crypto>>

\* decryptMessage(...).then of the message listener, which runs once (the
\* page notes it in `added`): the entry of a broadcast is added unless the
\* list holds its msgId
ShowBroadcast(c, msgId) ==
    /\ Decrypted(msgId)
    /\ \A i \in DOMAIN clients[c].history : clients[c].history[i].msgId # msgId
    /\ msgId \notin clients[c].added
    /\ clients' = [clients EXCEPT
           ![c].added = @ \cup {msgId},
           ![c].messages =
               IF \E i \in DOMAIN @ : @[i].msgId = msgId THEN @
               ELSE Append(@, Entry(msgId))]
    /\ UNCHANGED <<coordinatorVars, sessionsVars, pageVars, workerVars,
                   trustedKeys, calls, verdicts, authored, crypto>>

NextHistory ==
    \/ \E c \in DOMAIN clients, i \in 1..2 :
           /\ ~clients[c].loaded
           /\ DecryptMessageStart(c, clients[c].history[i])
    \/ \E c \in DOMAIN clients, msg \in EnvelopesOf("m3") :
           /\ ~ \E i \in DOMAIN clients[c].messages :
                    clients[c].messages[i].msgId = msg.msgId
           /\ DecryptMessageStart(c, msg)
    \/ \E c \in calls : GetTrustedKey(c)
    \/ \E c \in calls : SaveTrustedKey(c)
    \/ \E c \in DOMAIN clients : LoadHistoryDone(c)
    \/ \E c \in DOMAIN clients : ShowBroadcast(c, "m3")

SpecHistory == InitHistory /\ [][NextHistory]_vars

-----------------------------------------------------------------------------
(* C32: a message that cannot be decrypted is shown as a placeholder *)

\* the page's key opens the message
Opens(c, msg) ==
    ~decryptPayload(clients[c].cryptoKey, clients[c].room.roomId, msg.version,
                    msg.msgId, msg.ivB64, msg.ciphertextB64).throws

IsPlaceholder(entry) ==
    entry.error /\ entry.trustStatus = "unsigned" /\ entry.text = "[Unable to decrypt]"

IsShown(entry) ==
    ~entry.error /\ entry.text = "hi"
        /\ entry.trustStatus \in {"new", "verified", "mismatch"}

\* C32: a decryptMessage call that fails returns a placeholder flagged as
\* an error with trust state unsigned and changes neither the trust table
\* nor the page; when the batch is shown, every message of the history has
\* its entry, in order, a placeholder for each that does not open and the
\* decrypted entry for each that does; and a later broadcast that opens is
\* added to a list that holds placeholders, as one that does not open is
\* added as a placeholder.
C32_UndecryptableIsPlaceholder ==
    [][ /\ (Len(verdicts') = Len(verdicts) + 1
              /\ "error" \in DOMAIN verdicts'[Len(verdicts')])
           => /\ verdicts'[Len(verdicts')].status = "unsigned"
              /\ trustedKeys' = trustedKeys
              /\ calls' = calls
              /\ clients' = clients
        /\ \A c \in DOMAIN clients :
               (~clients[c].loaded /\ clients'[c].loaded)
               => /\ Len(clients'[c].messages) = Len(clients[c].history)
                  /\ \A i \in DOMAIN clients[c].history :
                         LET msg == clients[c].history[i]
                             entry == clients'[c].messages[i]
                         IN /\ entry.msgId = msg.msgId
                            /\ IF Opens(c, msg) THEN IsShown(entry)
                               ELSE IsPlaceholder(entry)
        /\ \A c \in DOMAIN clients :
               clients'[c].added # clients[c].added
               => LET list == clients'[c].messages
                  IN /\ SubSeq(list, 1, Len(clients[c].messages))
                            = clients[c].messages
                     /\ Len(list) = Len(clients[c].messages) + 1
                     /\ list[Len(list)].msgId = "m3"
                     /\ IsShown(list[Len(list)]) \/ IsPlaceholder(list[Len(list)])
      ]_vars

\* The first message of the batch did not open and the second did: the
\* list shows a placeholder, the second message as the first sight of its
\* signer, and after them the broadcast, verified by the same key.
C32_Witness ==
    \E c \in DOMAIN clients :
        /\ clients[c].loaded
        /\ Len(clients[c].messages) = 3
        /\ IsPlaceholder(clients[c].messages[1])
        /\ IsShown(clients[c].messages[2])
        /\ clients[c].messages[2].trustStatus = "new"
        /\ clients[c].messages[3].msgId = "m3"
        /\ clients[c].messages[3].trustStatus = "verified"
        /\ trustedKeys[trustKeyId(RoomIdOfUrl, "ann")].publicKeyJwk = Jwk1

-----------------------------------------------------------------------------
(* C33: a claimed name is relayed only for its owner *)

\* C33 as stated: a frame that is relayed or put to the insert under a
\* senderName the ledger holds carried the fingerprint that owns the name.
C33_AsStated ==
    [][\A ws \in DOMAIN sockets, data \in LedgerFrames :
         (AcceptStep(ws, data) /\ data.senderName # "")
         => LET owners == {r.key_fingerprint :
                              r \in ClaimRows(name_claims', data.senderName)}
            IN owners = {} \/ data.keyFingerprint \in owners
      ]_vars

-----------------------------------------------------------------------------
(* C34: one envelope per msgId *)

\* C34 as stated: no peer is sent two envelopes with one msgId, and an
\* envelope equals the row stored under its msgId.
C34_AsStated ==
    \A ws \in DOMAIN outbox :
        /\ \A i, j \in DOMAIN outbox[ws] :
               (i < j /\ IsRelayed(outbox[ws][i]) /\ IsRelayed(outbox[ws][j]))
                   => outbox[ws][i].msgId # outbox[ws][j].msgId
        /\ \A i \in DOMAIN outbox[ws] : \A row \in messages :
               (IsRelayed(outbox[ws][i]) /\ row.msg_id = outbox[ws][i].msgId)
                   => /\ outbox[ws][i].version = row.version
                      /\ outbox[ws][i].createdAt = row.created_at
                      /\ outbox[ws][i].ivB64 = row.iv_b64
                      /\ outbox[ws][i].ciphertextB64 = row.ciphertext_b64
                      /\ outbox[ws][i].senderName = row.sender_name

-----------------------------------------------------------------------------
(* C35: reconnecting does not reset the rate-limit window *)

\* C35: connect, close and error events leave the rate-limit entries as
\* they are, and a frame of an address whose window still runs with the
\* ceiling reached is answered with the rate-limit error, whichever of the
\* address's sessions sends it and whenever that session was opened.
C35_WindowOutlivesSessions ==
    [][ /\ ( \/ \E ip \in Ips, upgrade \in {"websocket", "none"} : Fetch(ip, upgrade)
             \/ \E ws \in DOMAIN sockets : CloseEvent(ws) \/ ErrorEvent(ws) )
           => rateLimits' = rateLimits
        /\ \A ws \in DOMAIN sockets, data \in LedgerFrames :
               LET ip == sockets[ws].ip
               IN (/\ HandleMessage(ws, data)
                   /\ data.kind # "unparseable"
                   /\ MapHas(rateLimits, ip)
                   /\ now < rateLimits[ip].resetAt
                   /\ rateLimits[ip].count >= MessageCeiling)
                  => /\ RejectedWith(ws, IsRateLimitError)
                     /\ rateLimits' = rateLimits
      ]_vars

\* The first session of an address used up the window and closed; the
\* address connected again, and the first frame of the new session,
\* inside the same window, was answered with the rate-limit error.
C35_Witness ==
    /\ Len(sockets) = 2
    /\ sockets[1].ip = sockets[2].ip
    /\ sockets[1].phase = "closed" /\ sockets[2].phase = "open"
    /\ Len(outbox[1]) = CfgMaxMessages
    /\ \A i \in DOMAIN outbox[1] : IsRelayed(outbox[1][i])
    /\ outbox[2] = <<ErrorFrame("Rate limit exceeded")>>
    /\ now < rateLimits[sockets[2].ip].resetAt
    /\ rateLimits[sockets[2].ip].count = CfgMaxMessages

-----------------------------------------------------------------------------
(* SpecStale: the Worker creates and rotates the room while the room's     *)
(* coordinator takes frames written for the room's version, the version    *)
(* before and the version after.                                           *)

MaxStaleMsgs == 2

VersionFrames == {[Frame("m1", "", "") EXCEPT !.version = v] : v \in 1..3}

NextStale ==
    \/ nSalts < MaxSalts /\ HandleCreateRoom(RoomIdOfUrl, "Soup", 0)
    \/ /\ nSalts < MaxSalts
       /\ Cardinality(requests) < MaxInFlight
       /\ HandleRotatePassphrase(RoomIdOfUrl, 0)
    \/ \E r \in requests : RotateUpdate(r)
    \* handleWebSocket forwards the upgrade when the room exists
    \/ /\ MapHas(rooms, RoomIdOfUrl)
       /\ Fetch("ip1", "websocket") /\ Len(sockets') <= MaxSockets
    \/ \E ws \in DOMAIN sockets, data \in VersionFrames :
           /\ nEvents < MaxStaleMsgs
           /\ HandleMessage(ws, data)
           /\ Cardinality(pending') <= 1
    \/ \E h \in pending : PersistOk(h)
    \/ \E h \in pending : PersistFail(h)

SpecStale == Init /\ [][NextStale]_vars

\* C36 as stated: a frame the coordinator accepts carries the version the
\* rooms table holds for the room at that time.
C36_AsStated ==
    [][\A ws \in DOMAIN sockets, data \in VersionFrames :
         AcceptStep(ws, data)
         => /\ MapHas(rooms, RoomIdOfUrl)
            /\ data.version = rooms[RoomIdOfUrl].version
      ]_vars

-----------------------------------------------------------------------------
(* C37: concurrent classification *)

\* C37 as stated: however the calls of verifyAndCheckTrust interleave, an
\* entry of the trust table is written once, and of the messages under one
\* display name one is classified new: a call returns new only when no
\* call has returned new for the name before, whichever keys signed them.
C37_AsStated ==
    [][ /\ \A id \in DOMAIN trustedKeys :
               id \in DOMAIN trustedKeys' /\ trustedKeys'[id] = trustedKeys[id]
        /\ \A i \in DOMAIN verdicts' \ DOMAIN verdicts :
               verdicts'[i].status = "new"
               => \A j \in DOMAIN verdicts :
                      ~ /\ verdicts[j].status = "new"
                        /\ verdicts[j].msg.payload.displayName =
                               verdicts'[i].msg.payload.displayName
      ]_vars

-----------------------------------------------------------------------------
(* C38: two rotate requests on one room *)

\* C38 as stated: two rotate requests of a room that both succeed report
\* different versions (a request answers with the version it is about to
\* write), each raises the stored version by one, so the two by two, and
\* the stored salt and version are those of the request that wrote last.
C38_AsStated ==
    [][ /\ \A r1, r2 \in requests :
               (r1 # r2 /\ r1.roomId = r2.roomId) => r1.newVersion # r2.newVersion
        /\ \A r \in requests \ requests' :
               /\ rooms'[r.roomId].version = rooms[r.roomId].version + 1
               /\ rooms'[r.roomId].salt_b64 = r.newSaltB64
               /\ rooms'[r.roomId].version = r.newVersion
      ]_vars

-----------------------------------------------------------------------------
(* The message cache of the page (app/src/utils/messageCache.ts).          *)
(* page.msgCache is the list that localStorage holds under                 *)
(* 'msgCache:' + roomId, as getCachedMessages parses it; the empty list    *)
(* stands for no item as well, which getCachedMessages reads as [].        *)

\* A setCachedMessages that keeps the first MAX_CACHED entries
setCachedMessages_KeepsOldest(item, msgs, quotaExceeded) ==
    IF quotaExceeded THEN item
    ELSE IF Len(msgs) > MAX_CACHED THEN SubSeq(msgs, 1, MAX_CACHED) ELSE msgs

\* setCachedMessages: the item afterwards.  setItem throws when the storage
\* is full, and the catch leaves the item as it was.
setCachedMessages(item, msgs, quotaExceeded) ==
    LET trimmed == IF Len(msgs) > MAX_CACHED
                   THEN SubSeq(msgs, Len(msgs) - MAX_CACHED + 1, Len(msgs))
                   ELSE msgs
    IN IF quotaExceeded THEN item ELSE trimmed

\* appendCachedMessage: the item afterwards
appendCachedMessage(item, msg, quotaExceeded) ==
    LET existing == item
    IN IF \E i \in DOMAIN existing : existing[i].msgId = msg.msgId THEN item
       ELSE setCachedMessages(item, Append(existing, msg), quotaExceeded)

\* The n-th message the page caches
CachedMessage(n) ==
    [msgId |-> "M" \o ToString(n), displayName |-> "ann", text |-> "hi",
     clientTs |-> n, createdAt |-> ToISOString(n)]

MaxCachedIds == 103
MaxCacheSets == 2

\* The lists a caller hands to setCachedMessages: empty, short, of exactly
\* MAX_CACHED entries, of one more, and one that names a msgId twice
CacheInputs ==
    LET RECURSIVE FirstMessages(_)
        FirstMessages(n) ==
            IF n = 0 THEN <<>> ELSE Append(FirstMessages(n - 1), CachedMessage(n))
    IN { FirstMessages(n) : n \in {0, 3, MAX_CACHED, MAX_CACHED + 1} }
           \cup { <<CachedMessage(1), CachedMessage(2), CachedMessage(1)>> }

SetCachedMessages(msgs, quotaExceeded) ==
    /\ page.nSets < MaxCacheSets
    /\ page' = [page EXCEPT
           !.msgCache = setCachedMessages(@, msgs, quotaExceeded),
           !.nSets = @ + 1]
    /\ UNCHANGED <<coordinatorVars, workerVars, appVars, sessionsVars>>

\* The listener caches a broadcast.  nCached numbers the messages the
\* listener has handed over and that the cache took or already held.
AppendCachedMessage(msg, quotaExceeded) ==
    /\ page.nCached < MaxCachedIds
    /\ LET item == appendCachedMessage(page.msgCache, msg, quotaExceeded)
       IN page' = [page EXCEPT
              !.msgCache = item,
              !.nCached = IF /\ msg = CachedMessage(@ + 1)
                             /\ \E i \in DOMAIN item : item[i].msgId = msg.msgId
                          THEN @ + 1 ELSE @]
    /\ UNCHANGED <<coordinatorVars, workerVars, appVars, sessionsVars>>

\* The calls: a list is set, or a message is appended, the next one or one
\* the cache holds at either end
NextCache ==
    \/ \E msgs \in CacheInputs, quotaExceeded \in BOOLEAN :
           SetCachedMessages(msgs, quotaExceeded)
    \/ \E msg \in {CachedMessage(page.nCached + 1)}
                   \cup {page.msgCache[i] : i \in {1, Len(page.msgCache)} \cap DOMAIN page.msgCache},
          quotaExceeded \in BOOLEAN :
           AppendCachedMessage(msg, quotaExceeded)

SpecCache == Init /\ [][NextCache]_vars

\* A list is the latest of an input: it has as many entries as the input,
\* MAX_CACHED at most, and they are the input's last ones in the input's order
LatestOf(input, item) ==
    /\ Len(item) = IF Len(input) > MAX_CACHED THEN MAX_CACHED ELSE Len(input)
    /\ \A i \in 1..Len(item) : item[i] = input[Len(input) - Len(item) + i]

IsCached(item, msgId) == \E i \in DOMAIN item : item[i].msgId = msgId

\* C39: every list a call writes holds at most MAX_CACHED entries, the most
\* recent ones of the call's input in order (for an append the input is the
\* cached list followed by the message); an append of a msgId that is cached
\* leaves the cache as it is; and a cache that only appends built never
\* holds two entries with one msgId.
C39_CacheKeepsLatest ==
    [][ /\ Len(page'.msgCache) <= MAX_CACHED
        /\ \A msgs \in CacheInputs :
               SetCachedMessages(msgs, FALSE) => LatestOf(msgs, page'.msgCache)
        /\ \A msg \in {CachedMessage(page.nCached + 1)}
                       \cup {page.msgCache[i] : i \in {1, Len(page.msgCache)} \cap DOMAIN page.msgCache} :
               AppendCachedMessage(msg, FALSE) =>
                   IF IsCached(page.msgCache, msg.msgId)
                   THEN page'.msgCache = page.msgCache
                   ELSE LatestOf(Append(page.msgCache, msg), page'.msgCache)
        /\ page'.nSets = 0 =>
               \A i, j \in DOMAIN page'.msgCache :
                   page'.msgCache[i].msgId = page'.msgCache[j].msgId => i = j ]_vars

\* The 101st append has pushed the first message out of a cache that only
\* appends built
C39_Witness ==
    /\ page.nSets = 0
    /\ page.nCached = MAX_CACHED + 1
    /\ Len(page.msgCache) = MAX_CACHED
    /\ page.msgCache[1] = CachedMessage(2)
    /\ page.msgCache[MAX_CACHED] = CachedMessage(MAX_CACHED + 1)

-----------------------------------------------------------------------------
(* The Worker's admin routes and their guard (api/src/index.ts, and the    *)
(* Worker of unnamed/part_000, which also deletes and lists rooms).  A     *)
(* request is [roomId, Authorization, route, method]: route "rooms" is     *)
(* /api/admin/rooms, "room" is /api/admin/rooms/:roomId and "rotate" is    *)
(* /api/admin/rooms/:roomId/rotate; Authorization is the header field as   *)
(* it was sent, Null when there is none.  fetch is given env with the      *)
(* request: ADMIN_TOKEN is Null when the secret is not set.                *)

\* A verifyAdmin that reads the header field as it was sent
verifyAdmin_RawHeader(request, ADMIN_TOKEN) ==
    LET authHeader == request.Authorization
        startsWithBearer == Len(authHeader) >= 7 /\ SubSeq(authHeader, 1, 7) = "Bearer "
        token == SubSeq(authHeader, 8, Len(authHeader))
    IN IF authHeader = Null \/ authHeader = "" \/ ~startsWithBearer THEN FALSE
       ELSE ADMIN_TOKEN # Null /\ token = ADMIN_TOKEN

\* verifyAdmin.  headers.get returns the field's value without the
\* whitespace around it, and null when the request has no such field.
verifyAdmin(request, ADMIN_TOKEN) ==
    LET RECURSIVE strip(_)
        strip(s) ==
            IF Len(s) > 0 /\ SubSeq(s, 1, 1) = " " THEN strip(SubSeq(s, 2, Len(s)))
            ELSE IF Len(s) > 0 /\ SubSeq(s, Len(s), Len(s)) = " "
            THEN strip(SubSeq(s, 1, Len(s) - 1))
            ELSE s
        authHeader == IF request.Authorization = Null THEN Null
                      ELSE strip(request.Authorization)
        startsWithBearer == Len(authHeader) >= 7 /\ SubSeq(authHeader, 1, 7) = "Bearer "
        token == SubSeq(authHeader, 8, Len(authHeader))
    IN IF authHeader = Null \/ authHeader = "" \/ ~startsWithBearer THEN FALSE
       \* a string is never === undefined
       ELSE ADMIN_TOKEN # Null /\ token = ADMIN_TOKEN

\* requireAdminAuth: TRUE when it throws
requireAdminAuth(request, ADMIN_TOKEN) ==
    LET RECURSIVE strip(_)
        strip(s) ==
            IF Len(s) > 0 /\ SubSeq(s, 1, 1) = " " THEN strip(SubSeq(s, 2, Len(s)))
            ELSE IF Len(s) > 0 /\ SubSeq(s, Len(s), Len(s)) = " "
            THEN strip(SubSeq(s, 1, Len(s) - 1))
            ELSE s
        authHeader == IF request.Authorization = Null THEN Null
                      ELSE strip(request.Authorization)
        startsWithBearer == Len(authHeader) >= 7 /\ SubSeq(authHeader, 1, 7) = "Bearer "
        token == SubSeq(authHeader, 8, Len(authHeader))
    IN IF authHeader = Null \/ authHeader = "" \/ ~startsWithBearer THEN TRUE
       ELSE ADMIN_TOKEN = Null \/ ADMIN_TOKEN = "" \/ token # ADMIN_TOKEN

\* fetch of api/src/index.ts on a request for an admin path.  The status
\* of a request that passes the guard is its handler's and is not recorded.
FetchAdmin(request, ADMIN_TOKEN) ==
    LET Answer(status) ==
            /\ response' = status
            /\ UNCHANGED <<env, connections, connectionsByIp, rateLimits,
                           initialized, roomId, name_claims, messages, sockets,
                           outbox, pending, now, nEvents,
                           workerVars, appVars, sessionsVars, pageVars>>
    IN IF request.route = "rooms" /\ request.method = "POST"
       THEN IF ~verifyAdmin(request, ADMIN_TOKEN) THEN Answer(401)
            ELSE HandleCreateRoom(request.roomId, "Soup", 0)
       ELSE IF request.route = "rotate" /\ request.method = "POST"
       THEN IF ~verifyAdmin(request, ADMIN_TOKEN) THEN Answer(401)
            ELSE HandleRotatePassphrase(request.roomId, 0)
       ELSE IF request.route = "room" /\ request.method = "PATCH"
       THEN IF ~verifyAdmin(request, ADMIN_TOKEN) THEN Answer(401)
            ELSE HandleUpdateRoom(request.roomId, "Stew")
       ELSE Answer(404)

\* fetch of unnamed/part_000 on a request for a path under /api/admin/
FetchAdminGuarded(request, ADMIN_TOKEN) ==
    LET Answer(status) ==
            /\ response' = status
            /\ UNCHANGED <<env, connections, connectionsByIp, rateLimits,
                           initialized, roomId, name_claims, messages, sockets,
                           outbox, pending, now, nEvents,
                           workerVars, appVars, sessionsVars, pageVars>>
    IN IF requireAdminAuth(request, ADMIN_TOKEN) THEN Answer(401)
       \* GET /api/admin/rooms: the rooms are listed
       ELSE IF request.route = "rooms" /\ request.method = "GET"
       THEN Answer(200)
       ELSE IF request.route = "rooms" /\ request.method = "POST"
       THEN HandleCreateRoom(request.roomId, "Soup", 0)
       ELSE IF request.route = "rotate" /\ request.method = "POST"
       THEN HandleRotatePassphrase(request.roomId, 0)
       \* UPDATE rooms SET title = ? WHERE room_id = ?, with no SELECT before
       ELSE IF request.route = "room" /\ request.method = "PATCH"
       THEN HandleUpdateRoom(request.roomId, "Stew")
       \* DELETE FROM messages WHERE room_id = ?, then DELETE FROM rooms
       ELSE IF request.route = "room" /\ request.method = "DELETE"
       THEN IF ~MapHas(rooms, request.roomId) THEN Answer(404)
            ELSE /\ messages' = {m \in messages : m.room_id # request.roomId}
                 /\ rooms' = MapDelete(rooms, request.roomId)
                 /\ response' = 200
                 /\ UNCHANGED <<env, connections, connectionsByIp, rateLimits,
                                initialized, roomId, name_claims, sockets,
                                outbox, pending, now, nEvents, requests, nSalts,
                                appVars, sessionsVars, pageVars>>
       ELSE Answer(404)

(* SpecAdmin: admin requests with and without the token reach both Workers *)
(* while the room's coordinator stores a message.                          *)

MaxAdminMsgs == 1
MaxAdminSalts == 2

NextAdmin ==
    \/ \E method \in {"GET", "POST", "PATCH", "DELETE"},
          route \in {"rooms", "room", "rotate"},
          Authorization \in {Null, "Bearer ", "Bearer s3cret", "Bearer s3cret ",
                             "Bearer wrong", "bearer s3cret"},
          ADMIN_TOKEN \in {Null, "", "s3cret"} :
           /\ FetchAdmin([roomId |-> RoomIdOfUrl, Authorization |-> Authorization,
                          route |-> route, method |-> method], ADMIN_TOKEN)
           /\ nSalts' <= MaxAdminSalts /\ Cardinality(requests') <= 1
    \/ \E method \in {"GET", "POST", "PATCH", "DELETE"},
          route \in {"rooms", "room", "rotate"},
          Authorization \in {Null, "Bearer ", "Bearer s3cret", "Bearer s3cret ",
                             "Bearer wrong", "bearer s3cret"},
          ADMIN_TOKEN \in {Null, "", "s3cret"} :
           /\ FetchAdminGuarded([roomId |-> RoomIdOfUrl,
                                 Authorization |-> Authorization,
                                 route |-> route, method |-> method], ADMIN_TOKEN)
           /\ nSalts' <= MaxAdminSalts /\ Cardinality(requests') <= 1
    \/ \E r \in requests : RotateUpdate(r)
    \* handleWebSocket forwards the upgrade when the room exists
    \/ /\ MapHas(rooms, RoomIdOfUrl)
       /\ Fetch("ip1", "websocket") /\ Len(sockets') <= 1
    \/ \E ws \in DOMAIN sockets :
           /\ nEvents < MaxAdminMsgs
           /\ HandleMessage(ws, Frame("m1", "", ""))
    \/ \E h \in pending : PersistOk(h)

SpecAdmin == Init /\ [][NextAdmin]_vars

\* The five admin operations, and the requests made for them
AdminOperations ==
    {<<"POST", "rooms">>, <<"POST", "rotate">>, <<"PATCH", "room">>,
     <<"DELETE", "room">>, <<"GET", "rooms">>}

AdminRequests ==
    {request \in [method : {"GET", "POST", "PATCH", "DELETE"},
                  route : {"rooms", "room", "rotate"},
                  roomId : {RoomIdOfUrl},
                  Authorization : {Null, "Bearer ", "Bearer s3cret",
                                   "Bearer s3cret ", "Bearer wrong",
                                   "bearer s3cret"}] :
        <<request.method, request.route>> \in AdminOperations}

\* The header's value, which leaves out the whitespace around it, is
\* "Bearer " followed by the configured token, and that token is not empty
CarriesAdminToken(request, ADMIN_TOKEN) ==
    /\ ADMIN_TOKEN \notin {Null, ""}
    /\ request.Authorization \in {"Bearer " \o ADMIN_TOKEN,
                                  "Bearer " \o ADMIN_TOKEN \o " "}

====
